---- MODULE Spec2Model ----
(***************************************************************************)
(* The deidentify -> operation -> reidentify protection envelope of the    *)
(* SDK: wrapWithProtection (middleware/wrap.ts) and SkyflowMCP.wrap,       *)
(* SkyflowMCP.deidentify and SkyflowMCP.reidentify (client/SkyflowMCP.ts); *)
(* the construction of the client (its constructor, createFromEnv); the    *)
(* pure functions of utils/validation.ts and utils/entityMaps.ts.          *)
(* The vault service, the caller's operation and the caller's callbacks    *)
(* are the environment: each answers with any value of a small set.        *)
(***************************************************************************)
EXTENDS Integers, Sequences, FiniteSets, TLC

VARIABLES client, calls

vars == <<client, calls>>

(***************************************************************************)
(* JavaScript values, tagged with what typeof and instanceof can tell.     *)
(***************************************************************************)
Undefined == [t |-> "undefined"]

Null == [t |-> "null"]

Str(s) == [t |-> "string", str |-> s]

Num(n) == [t |-> "number", num |-> n]

Bool(b) == [t |-> "boolean", bool |-> b]

Arr(items) == [t |-> "array", items |-> items]

Obj(fields) == [t |-> "object", fields |-> fields]

Fn == [t |-> "function"]

Enum(name) == [t |-> "enum", name |-> name]

\* typeof v
TypeOf(v) ==
  CASE v.t \in {"null", "array", "object", "error"} -> "object"
    [] v.t = "enum" -> "string"
    [] OTHER -> v.t

\* ToBoolean(v): what `!v`, `v || w` and `v && w` test
Truthy(v) ==
  CASE v.t \in {"undefined", "null"} -> FALSE
    [] v.t = "string" -> v.str # ""
    [] v.t = "number" -> v.num # 0
    [] v.t = "boolean" -> v.bool
    [] OTHER -> TRUE

\* v || w
OrElse(v, w) == IF Truthy(v) THEN v ELSE w

(***************************************************************************)
(* Errors: the SDK's own classes and the ones the environment throws.      *)
(***************************************************************************)
\* new Error(message)
ErrorObj(message) == [t |-> "error", class |-> "Error", message |-> message]

\* skyflow-node's SkyflowError, with its optional `error` payload
SkyflowError(message, payload) ==
  [t |-> "error", class |-> "SkyflowError", message |-> message, error |-> payload]

\* error instanceof Error
InstanceOfError(e) == e.t = "error"

\* error instanceof SkyflowError
InstanceOfSkyflowError(e) == e.t = "error" /\ e.class = "SkyflowError"

DeidentifyError(message, httpCode, details, cause) ==
  [t |-> "error", class |-> "DeidentifyError", code |-> "DEIDENTIFY_ERROR",
   message |-> message, httpCode |-> httpCode, details |-> details, cause |-> cause]

ReidentifyError(message, httpCode, details, cause) ==
  [t |-> "error", class |-> "ReidentifyError", code |-> "REIDENTIFY_ERROR",
   message |-> message, httpCode |-> httpCode, details |-> details, cause |-> cause]

ConfigurationError(message, cause) ==
  [t |-> "error", class |-> "ConfigurationError", code |-> "CONFIGURATION_ERROR",
   message |-> message, cause |-> cause]

\* error.error?.http_code and error.error?.details
PayloadField(e, name) ==
  IF e.error.t = "object" /\ name \in DOMAIN e.error.fields
  THEN e.error.fields[name]
  ELSE Undefined

(***************************************************************************)
(* The entity vocabulary.                                                  *)
(***************************************************************************)
\* ENTITY_TYPES: the vocabulary as an array, for schema validation
ENTITY_TYPES ==
  <<
    "age", "bank_account", "credit_card", "credit_card_expiration",
    "cvv", "date", "date_interval", "dob",
    "driver_license", "email_address", "healthcare_number", "ip_address",
    "location", "name", "numerical_pii", "phone_number",
    "ssn", "url", "vehicle_id", "medical_code",
    "name_family", "name_given", "account_number", "event",
    "filename", "gender", "language", "location_address",
    "location_city", "location_coordinate", "location_country", "location_state",
    "location_zip", "marital_status", "money", "name_medical_professional",
    "occupation", "organization", "organization_medical_facility", "origin",
    "passport_number", "password", "physical_attribute", "political_affiliation",
    "religion", "time", "username", "zodiac_sign",
    "blood_type", "condition", "dose", "drug",
    "injury", "medical_process", "statistics", "routing_number",
    "corporate_action", "financial_metric", "product", "trend",
    "duration", "location_address_street", "all", "sexuality",
    "effect", "project", "organization_id", "day",
    "month"
  >>

ENTITY_MAP ==
  ("age" :> "AGE") @@
  ("bank_account" :> "BANK_ACCOUNT") @@
  ("credit_card" :> "CREDIT_CARD") @@
  ("credit_card_expiration" :> "CREDIT_CARD_EXPIRATION") @@
  ("cvv" :> "CVV") @@
  ("date" :> "DATE") @@
  ("date_interval" :> "DATE_INTERVAL") @@
  ("dob" :> "DOB") @@
  ("driver_license" :> "DRIVER_LICENSE") @@
  ("email_address" :> "EMAIL_ADDRESS") @@
  ("healthcare_number" :> "HEALTHCARE_NUMBER") @@
  ("ip_address" :> "IP_ADDRESS") @@
  ("location" :> "LOCATION") @@
  ("name" :> "NAME") @@
  ("numerical_pii" :> "NUMERICAL_PII") @@
  ("phone_number" :> "PHONE_NUMBER") @@
  ("ssn" :> "SSN") @@
  ("url" :> "URL") @@
  ("vehicle_id" :> "VEHICLE_ID") @@
  ("medical_code" :> "MEDICAL_CODE") @@
  ("name_family" :> "NAME_FAMILY") @@
  ("name_given" :> "NAME_GIVEN") @@
  ("account_number" :> "ACCOUNT_NUMBER") @@
  ("event" :> "EVENT") @@
  ("filename" :> "FILENAME") @@
  ("gender" :> "GENDER") @@
  ("language" :> "LANGUAGE") @@
  ("location_address" :> "LOCATION_ADDRESS") @@
  ("location_city" :> "LOCATION_CITY") @@
  ("location_coordinate" :> "LOCATION_COORDINATE") @@
  ("location_country" :> "LOCATION_COUNTRY") @@
  ("location_state" :> "LOCATION_STATE") @@
  ("location_zip" :> "LOCATION_ZIP") @@
  ("marital_status" :> "MARITAL_STATUS") @@
  ("money" :> "MONEY") @@
  ("name_medical_professional" :> "NAME_MEDICAL_PROFESSIONAL") @@
  ("occupation" :> "OCCUPATION") @@
  ("organization" :> "ORGANIZATION") @@
  ("organization_medical_facility" :> "ORGANIZATION_MEDICAL_FACILITY") @@
  ("origin" :> "ORIGIN") @@
  ("passport_number" :> "PASSPORT_NUMBER") @@
  ("password" :> "PASSWORD") @@
  ("physical_attribute" :> "PHYSICAL_ATTRIBUTE") @@
  ("political_affiliation" :> "POLITICAL_AFFILIATION") @@
  ("religion" :> "RELIGION") @@
  ("time" :> "TIME") @@
  ("username" :> "USERNAME") @@
  ("zodiac_sign" :> "ZODIAC_SIGN") @@
  ("blood_type" :> "BLOOD_TYPE") @@
  ("condition" :> "CONDITION") @@
  ("dose" :> "DOSE") @@
  ("drug" :> "DRUG") @@
  ("injury" :> "INJURY") @@
  ("medical_process" :> "MEDICAL_PROCESS") @@
  ("statistics" :> "STATISTICS") @@
  ("routing_number" :> "ROUTING_NUMBER") @@
  ("corporate_action" :> "CORPORATE_ACTION") @@
  ("financial_metric" :> "FINANCIAL_METRIC") @@
  ("product" :> "PRODUCT") @@
  ("trend" :> "TREND") @@
  ("duration" :> "DURATION") @@
  ("location_address_street" :> "LOCATION_ADDRESS_STREET") @@
  ("all" :> "ALL") @@
  ("sexuality" :> "SEXUALITY") @@
  ("effect" :> "EFFECT") @@
  ("project" :> "PROJECT") @@
  ("organization_id" :> "ORGANIZATION_ID") @@
  ("day" :> "DAY") @@
  ("month" :> "MONTH")

\* The names an object literal inherits from Object.prototype
ObjectPrototypeNames ==
  {"constructor", "toString", "toLocaleString", "valueOf", "hasOwnProperty",
   "isPrototypeOf", "propertyIsEnumerable", "__proto__",
   "__defineGetter__", "__defineSetter__", "__lookupGetter__", "__lookupSetter__"}

\* ENTITY_MAP[entity]: an own key, else an inherited member (a function, or
\* the prototype object for __proto__), else undefined
EntityMapLookup(entity) ==
  IF entity \in DOMAIN ENTITY_MAP THEN Enum(ENTITY_MAP[entity])
  ELSE IF entity = "__proto__" THEN Obj(<<>>)
  ELSE IF entity \in ObjectPrototypeNames THEN Fn
  ELSE Undefined

\* getEntityEnum(entity): the enum value, or the Error it throws
getEntityEnum(entity) ==
  LET entityEnum == EntityMapLookup(entity) IN
  IF ~Truthy(entityEnum)
  THEN [threw |-> TRUE, error |-> ErrorObj("Invalid entity type: " \o entity)]
  ELSE [threw |-> FALSE, value |-> entityEnum]

\* entity in ENTITY_MAP: an own key, or a name the object inherits
isValidEntity(entity) ==
  Bool(entity \in DOMAIN ENTITY_MAP \/ entity \in ObjectPrototypeNames)

(***************************************************************************)
(* Vault configuration validation (utils/validation.ts).                   *)
(***************************************************************************)
\* The text has `part` at place i
StartsWithAt(text, i, part) ==
  /\ i + Len(part) - 1 <= Len(text)
  /\ SubSeq(text, i, i + Len(part) - 1) = part

\* text.includes(part)
Includes(text, part) == \E i \in 1..(Len(text) + 1) : StartsWithAt(text, i, part)

NoMatch == [found |-> FALSE]

\* ([^.]*)\.vault tried at place j: the run may be empty
LabelAtOrEmpty(text, j) ==
  LET dots == {k \in j..Len(text) : SubSeq(text, k, k) = "."} IN
  IF dots = {} THEN NoMatch
  ELSE LET k == CHOOSE d \in dots : \A e \in dots : d <= e IN
       IF StartsWithAt(text, k, ".vault")
       THEN [found |-> TRUE, group |-> SubSeq(text, j, k - 1)]
       ELSE NoMatch

\* ([^.]+)\.vault tried at place j: the run of characters other than "." that
\* starts at j, when it is not empty and ".vault" follows it (a shorter run
\* is followed by a character of the run, never by ".")
LabelAt(text, j) ==
  LET dots == {k \in j..Len(text) : SubSeq(text, k, k) = "."} IN
  IF dots = {} THEN NoMatch
  ELSE LET k == CHOOSE d \in dots : \A e \in dots : d <= e IN
       IF k > j /\ StartsWithAt(text, k, ".vault")
       THEN [found |-> TRUE, group |-> SubSeq(text, j, k - 1)]
       ELSE NoMatch

\* (?:https?:\/\/)? at place i: the length of the scheme there, 0 when none
SchemeAt(text, i) ==
  IF StartsWithAt(text, i, "https://") THEN 8
  ELSE IF StartsWithAt(text, i, "http://") THEN 7
  ELSE 0

\* /(?:https?:\/\/)?([^.]+)\.vault/ tried at place i: with the scheme when
\* there is one and the rest matches behind it, else without it
MatchAt(text, i) ==
  IF SchemeAt(text, i) > 0 /\ LabelAt(text, i + SchemeAt(text, i)).found
  THEN LabelAt(text, i + SchemeAt(text, i))
  ELSE LabelAt(text, i)

\* vaultUrl.match(/(?:https?:\/\/)?([^.]+)\.vault/): the leftmost match
Match(text) ==
  LET places == {i \in 1..Len(text) : MatchAt(text, i).found} IN
  IF places = {} THEN NoMatch
  ELSE MatchAt(text, CHOOSE i \in places : \A j \in places : i <= j)

\* extractClusterId with ([^.]*) for the label
extractClusterIdOrEmpty(vaultUrl) ==
  LET places == {i \in 1..Len(vaultUrl) : LabelAtOrEmpty(vaultUrl, i).found} IN
  IF places = {} THEN Null
  ELSE Str(LabelAtOrEmpty(vaultUrl, CHOOSE i \in places : \A j \in places : i <= j).group)

\* extractClusterId(vaultUrl): match?.[1] ?? null
extractClusterId(vaultUrl) ==
  LET match == Match(vaultUrl) IN
  IF match.found THEN Str(match.group) ELSE Null

\* validateVaultConfig testing vaultUrl before vaultId
validateVaultConfigUrlFirst(params) ==
  IF ~Truthy(params.vaultUrl)
  THEN [isValid |-> FALSE, error |-> "vaultUrl is required"]
  ELSE IF ~Truthy(params.vaultId)
  THEN [isValid |-> FALSE, error |-> "vaultId is required"]
  ELSE LET clusterId == extractClusterId(params.vaultUrl.str) IN
       IF ~Truthy(clusterId)
       THEN [isValid |-> FALSE,
             error |-> "Invalid vaultUrl format. Expected format: "
                       \o "https://<clusterId>.vault.skyflowapis.com"]
       ELSE [isValid |-> TRUE,
             config |-> [vaultId |-> params.vaultId,
                         vaultUrl |-> params.vaultUrl,
                         clusterId |-> clusterId,
                         accountId |-> params.accountId,
                         workspaceId |-> params.workspaceId]]

\* validateVaultConfig leaving accountId and workspaceId out of the config
\* when they are undefined
validateVaultConfigOmitting(params) ==
  IF ~Truthy(params.vaultId)
  THEN [isValid |-> FALSE, error |-> "vaultId is required"]
  ELSE IF ~Truthy(params.vaultUrl)
  THEN [isValid |-> FALSE, error |-> "vaultUrl is required"]
  ELSE LET clusterId == extractClusterId(params.vaultUrl.str) IN
       IF ~Truthy(clusterId)
       THEN [isValid |-> FALSE,
             error |-> "Invalid vaultUrl format. Expected format: "
                       \o "https://<clusterId>.vault.skyflowapis.com"]
       ELSE [isValid |-> TRUE,
             config |-> [f \in {"vaultId", "vaultUrl", "clusterId"}
                              \cup {g \in {"accountId", "workspaceId"} :
                                      params[g] # Undefined} |->
                           IF f = "clusterId" THEN clusterId ELSE params[f]]]

\* validateVaultConfig(params): the ValidationResult, an object that has an
\* `error` or a `config`
validateVaultConfig(params) ==
  IF ~Truthy(params.vaultId)
  THEN [isValid |-> FALSE, error |-> "vaultId is required"]
  ELSE IF ~Truthy(params.vaultUrl)
  THEN [isValid |-> FALSE, error |-> "vaultUrl is required"]
  ELSE LET clusterId == extractClusterId(params.vaultUrl.str) IN
       IF ~Truthy(clusterId)
       THEN [isValid |-> FALSE,
             error |-> "Invalid vaultUrl format. Expected format: "
                       \o "https://<clusterId>.vault.skyflowapis.com"]
       ELSE [isValid |-> TRUE,
             config |-> [vaultId |-> params.vaultId,
                         vaultUrl |-> params.vaultUrl,
                         clusterId |-> clusterId,
                         accountId |-> params.accountId,
                         workspaceId |-> params.workspaceId]]

(***************************************************************************)
(* SkyflowMCP.deidentify and SkyflowMCP.reidentify, each split at its one  *)
(* await: what runs before the vault call, and what runs once it settles.  *)
(***************************************************************************)
\* o.name of a plain object: undefined when the key is absent
Get(o, name) == IF name \in DOMAIN o THEN o[name] ELSE Undefined

TokenTypes == {"VAULT_TOKEN", "ENTITY_UNIQUE_COUNTER", "ENTITY_ONLY"}

\* TOKEN_TYPE_MAP[tokenType]
TokenTypeMapLookup(tokenType) ==
  IF tokenType.t = "string" /\ tokenType.str \in TokenTypes
  THEN Enum(tokenType.str)
  ELSE Undefined

\* o?.name
OptionalChain(o, name) ==
  IF o \in {Undefined, Null} THEN Undefined ELSE Get(o, name)

\* EffectiveTokenType with the client's default taken before the per-call value
EffectiveTokenTypeDefaultFirst(config, options) ==
  OrElse(OptionalChain(config.options, "defaultTokenType"),
         OrElse(OptionalChain(options, "tokenType"), Str("VAULT_TOKEN")))

\* options?.tokenType || this.config.options?.defaultTokenType || "VAULT_TOKEN"
EffectiveTokenType(config, options) ==
  OrElse(OptionalChain(options, "tokenType"),
         OrElse(OptionalChain(config.options, "defaultTokenType"), Str("VAULT_TOKEN")))

\* options?.entities || this.config.options?.defaultEntities
EffectiveEntities(config, options) ==
  OrElse(OptionalChain(options, "entities"),
         OptionalChain(config.options, "defaultEntities"))

\* entities.map((e) => getEntityEnum(e)): the enums, or the first Error thrown
MapEntityEnums(items) ==
  LET bad == {i \in 1..Len(items) : getEntityEnum(items[i]).threw} IN
  IF bad # {}
  THEN LET first == CHOOSE i \in bad : \A j \in bad : i <= j
       IN [threw |-> TRUE, error |-> getEntityEnum(items[first]).error]
  ELSE [threw |-> FALSE,
        value |-> Arr([i \in 1..Len(items) |-> getEntityEnum(items[i]).value])]

\* deidentifyCatch reclassifying service errors only: anything else is
\* thrown again as it is
deidentifyCatchServiceErrorsOnly(error) ==
  IF InstanceOfSkyflowError(error)
  THEN LET httpCode == PayloadField(error, "http_code") IN
       DeidentifyError(error.message,
                       IF TypeOf(httpCode) = "number" THEN httpCode ELSE Undefined,
                       PayloadField(error, "details"),
                       error)
  ELSE error

\* The catch block of deidentify: every failure becomes a DeidentifyError
deidentifyCatch(error) ==
  IF InstanceOfSkyflowError(error)
  THEN LET httpCode == PayloadField(error, "http_code") IN
       DeidentifyError(error.message,
                       IF TypeOf(httpCode) = "number" THEN httpCode ELSE Undefined,
                       PayloadField(error, "details"),
                       error)
  ELSE DeidentifyError(
         IF InstanceOfError(error) THEN error.message ELSE "Unknown deidentify error",
         Undefined, Undefined,
         IF InstanceOfError(error) THEN error ELSE Undefined)

\* reidentifyCatch leaving the service's details out
reidentifyCatchWithoutDetails(error) ==
  IF InstanceOfSkyflowError(error)
  THEN LET httpCode == PayloadField(error, "http_code") IN
       ReidentifyError(error.message,
                       IF TypeOf(httpCode) = "number" THEN httpCode ELSE Undefined,
                       Undefined,
                       error)
  ELSE ReidentifyError(
         IF InstanceOfError(error) THEN error.message ELSE "Unknown reidentify error",
         Undefined, Undefined,
         IF InstanceOfError(error) THEN error ELSE Undefined)

\* The catch block of reidentify
reidentifyCatch(error) ==
  IF InstanceOfSkyflowError(error)
  THEN LET httpCode == PayloadField(error, "http_code") IN
       ReidentifyError(error.message,
                       IF TypeOf(httpCode) = "number" THEN httpCode ELSE Undefined,
                       PayloadField(error, "details"),
                       error)
  ELSE ReidentifyError(
         IF InstanceOfError(error) THEN error.message ELSE "Unknown reidentify error",
         Undefined, Undefined,
         IF InstanceOfError(error) THEN error ELSE Undefined)

\* deidentify up to its await: the request handed to deidentifyText, or the
\* DeidentifyError its catch block makes of an Error thrown before the call
deidentifyRequest(config, text, options) ==
  LET tokenType == EffectiveTokenType(config, options)
      tokenFormat == TokenTypeMapLookup(tokenType)
      entities == EffectiveEntities(config, options)
      mapped == IF Truthy(entities) /\ Len(entities.items) > 0
                THEN MapEntityEnums(entities.items)
                ELSE [threw |-> FALSE, value |-> Undefined]
  IN IF mapped.threw
     THEN [threw |-> TRUE, error |-> deidentifyCatch(mapped.error)]
     ELSE [threw |-> FALSE,
           request |-> [text |-> text, tokenFormat |-> tokenFormat,
                        entities |-> mapped.value]]

\* deidentify after its await resolved: the DeidentifyResult built of the response
DeidentifyResultOf(response) ==
  LET optional == {f \in {"entities"} : Truthy(Get(response, f))}
                  \cup {f \in {"wordCount", "charCount"} : Get(response, f) # Undefined}
  IN [f \in {"processedText"} \cup optional |-> Get(response, f)]

\* reidentify after its await resolved
ReidentifyResultOf(response) == [processedText |-> Get(response, "processedText")]

\* A settled promise
Fulfilled(value) == [state |-> "fulfilled", value |-> value]

Rejected(reason) == [state |-> "rejected", reason |-> reason]

Pending == [state |-> "pending"]

(***************************************************************************)
(* The environment: the vault service, the caller's operation and the      *)
(* caller's callbacks.  An answer is a value, or something thrown.         *)
(***************************************************************************)
Ok(value) == [ok |-> TRUE, value |-> value]

Fail(error) == [ok |-> FALSE, error |-> error]

Inputs == {"john@example.com", "123-45-6789"}

\* What the vault makes of a text: sensitive values become tokens
Tokenize(text) ==
  CASE text = "john@example.com" -> "[EMAIL_ADDRESS_abc123]"
    [] text = "123-45-6789" -> "[SSN_def456]"
    [] OTHER -> text

\* What the vault restores: tokens become the values they stand for
Restore(text) ==
  CASE text = "[EMAIL_ADDRESS_abc123]" -> "john@example.com"
    [] text = "[SSN_def456]" -> "123-45-6789"
    [] OTHER -> text

\* The ways a vault call fails: structured service errors (with a numeric
\* status and details, with no payload, with details only, with a status that
\* is no number), a plain Error, and a thrown value that is no Error
ServiceFailures ==
  {SkyflowError("Vault unavailable",
                Obj([http_code |-> Num(503), details |-> Str("retry later")])),
   SkyflowError("Bad request", Undefined),
   SkyflowError("Forbidden", Obj([details |-> Str("no access")])),
   SkyflowError("Conflict", Obj([http_code |-> Str("409")])),
   ErrorObj("socket hang up"),
   Str("timeout")}

\* deidentifyText(request): a response with every optional field, a response
\* with the text only, or a failure
DeidentifyTextAnswers(request) ==
  {Ok([processedText |-> Str(Tokenize(request.text)),
       entities |-> Arr(<<Obj([token |-> Str(Tokenize(request.text)),
                               value |-> Str(request.text)])>>),
       wordCount |-> Num(1),
       charCount |-> Num(16)]),
   Ok([processedText |-> Str(Tokenize(request.text))])}
  \cup {Fail(e) : e \in ServiceFailures}

\* reidentifyText(text)
ReidentifyTextAnswers(text) ==
  {Ok([processedText |-> Str(Restore(text.str))])} \cup {Fail(e) : e \in ServiceFailures}

\* What the caller's operation may do with the protected text it is given:
\* echo it, return other strings, non-strings and objects, or fail
OperationAnswers(protectedInput) ==
  {Ok(protectedInput), Ok(Str("no tokens")), Ok(Str("")),
   Ok(Num(42)), Ok(Null), Ok(Undefined), Ok(Arr(<<protectedInput>>)),
   Ok(Obj([output |-> protectedInput, other |-> Str("x")])),
   Ok(Obj([output |-> Num(7), other |-> protectedInput])),
   Ok(Obj([other |-> protectedInput])),
   Ok(Obj(("" :> protectedInput) @@ ("other" :> Str("x")))),
   Fail(ErrorObj("operation failed")),
   Fail(Str("operation rejected"))}

\* The few answers of SpecConc: one success and one failure of each call
ConcDeidentifyTextAnswers(request) ==
  {Ok([processedText |-> Str(Tokenize(request.text))]),
   Fail(ErrorObj("socket hang up"))}

ConcOperationAnswers(protectedInput) ==
  {Ok(protectedInput),
   Ok(Obj([output |-> protectedInput, other |-> Str("x")])),
   Fail(ErrorObj("operation failed"))}

ConcReidentifyTextAnswers(text) ==
  {Ok([processedText |-> Str(Restore(text.str))]), Fail(ErrorObj("socket hang up"))}

\* A callback the caller passes: it returns, or it throws
Callback(behaviour) == [t |-> "function", behaviour |-> behaviour]

CallbackFailure == ErrorObj("callback failed")

(***************************************************************************)
(* One invocation of wrapWithProtection or client.wrap.                    *)
(***************************************************************************)
Ev(name, arg) == [ev |-> name, arg |-> arg]

\* The invocation as it is called: nothing has run yet
NewCall(api, input, options) ==
  [api |-> api, input |-> input, options |-> options, pc |-> "called",
   request |-> Undefined, deidentified |-> Pending,
   protectedInput |-> Undefined, result |-> Undefined,
   path |-> "none", reidentifyArg |-> Undefined, reidentified |-> Pending,
   outcome |-> Pending, trace |-> <<>>]

\* return value / throw reason: the invocation's promise settles
Return(call, value) == [call EXCEPT !.pc = "done", !.outcome = Fulfilled(value)]

Throw(call, reason) == [call EXCEPT !.pc = "done", !.outcome = Rejected(reason)]

\* The invocation's promise settles as the promise it returns does
Settle(call, promise) == [call EXCEPT !.pc = "done", !.outcome = promise]

\* Notify calling the callback a second time
NotifyTwice(call, callback, name, arg) ==
  IF callback \in {Undefined, Null}
  THEN call
  ELSE [call EXCEPT !.trace = Append(Append(@, Ev(name, arg)), Ev(name, arg))]

\* callback?.(arg): not called when the option is absent
Notify(call, callback, name, arg) ==
  IF callback \in {Undefined, Null}
  THEN call
  ELSE [call EXCEPT !.trace = Append(@, Ev(name, arg))]

Throws(callback) == callback \notin {Undefined, Null} /\ callback.behaviour = "throws"

\* The call to client.deidentify(input, options) that opens both envelopes
\* (wrap.ts line 82, SkyflowMCP.wrap lines 405-408), up to deidentify's await
CallDeidentify(config, call) ==
  LET r == deidentifyRequest(config, call.input, call.options) IN
  IF r.threw
  THEN [call EXCEPT !.pc = "awaitDeidentify", !.deidentified = Rejected(r.error)]
  ELSE [call EXCEPT !.pc = "deidentifyText", !.request = r.request,
                    !.trace = Append(@, Ev("deidentifyText.call", r.request))]

\* SettleDeidentify with a retry: a failed deidentifyText is asked again
SettleDeidentifyRetrying(call, answer) ==
  IF answer.ok
  THEN [call EXCEPT !.pc = "awaitDeidentify",
                    !.deidentified = Fulfilled(DeidentifyResultOf(answer.value)),
                    !.trace = Append(@, Ev("deidentifyText.ok", answer.value))]
  ELSE [call EXCEPT !.trace = Append(Append(@, Ev("deidentifyText.fail", answer.error)),
                                     Ev("deidentifyText.call", call.request))]

\* client.deidentify once deidentifyText has settled
SettleDeidentify(call, answer) ==
  IF answer.ok
  THEN [call EXCEPT !.pc = "awaitDeidentify",
                    !.deidentified = Fulfilled(DeidentifyResultOf(answer.value)),
                    !.trace = Append(@, Ev("deidentifyText.ok", answer.value))]
  ELSE [call EXCEPT !.pc = "awaitDeidentify",
                    !.deidentified = Rejected(deidentifyCatch(answer.error)),
                    !.trace = Append(@, Ev("deidentifyText.fail", answer.error))]

\* CallOperation without the await: the envelope returns the pending promise
CallOperationNotAwaited(call, protectedInput) ==
  Return([call EXCEPT !.protectedInput = protectedInput,
                      !.trace = Append(@, Ev("operation.call", protectedInput))],
         Undefined)

\* operation(protectedInput) is called and awaited
CallOperation(call, protectedInput) ==
  [call EXCEPT !.pc = "operation", !.protectedInput = protectedInput,
               !.trace = Append(@, Ev("operation.call", protectedInput))]

\* client.reidentify(text) up to its await: reidentifyText is called
CallReidentify(call, text, path) ==
  [call EXCEPT !.pc = "reidentifyText", !.path = path, !.reidentifyArg = text,
               !.trace = Append(@, Ev("reidentifyText.call", text))]

\* client.reidentify once reidentifyText has settled
SettleReidentify(call, answer) ==
  IF answer.ok
  THEN [call EXCEPT !.pc = "awaitReidentify",
                    !.reidentified = Fulfilled(ReidentifyResultOf(answer.value)),
                    !.trace = Append(@, Ev("reidentifyText.ok", answer.value))]
  ELSE [call EXCEPT !.pc = "awaitReidentify",
                    !.reidentified = Rejected(reidentifyCatch(answer.error)),
                    !.trace = Append(@, Ev("reidentifyText.fail", answer.error))]

\* result[name] of an operation result that is an object
Property(value, name) ==
  IF value.t = "object" THEN Get(value.fields, name) ELSE Undefined

\* { ...result, [name]: value }
Spread(result, name, value) ==
  Obj([f \in DOMAIN result.fields \cup {name} |->
         IF f = name THEN value ELSE result.fields[f]])

(***************************************************************************)
(* wrapWithProtection (middleware/wrap.ts), resumed after each await.      *)
(***************************************************************************)
\* ReidentifyOutputOrDefault with the option ignored
ReidentifyOutputAlways(options) == Bool(TRUE)

\* const { reidentifyOutput = true, ... } = options
ReidentifyOutputOrDefault(options) ==
  IF options.reidentifyOutput = Undefined THEN Bool(TRUE) ELSE options.reidentifyOutput

\* wrapWithProtectionAfterDeidentify falling back to the raw input when
\* deidentify failed
wrapWithProtectionAfterDeidentifyFallback(call) ==
  IF call.deidentified.state = "rejected"
  THEN CallOperation(call, Str(call.input))
  ELSE LET deidentifyResult == call.deidentified.value
           onDeidentify == call.options.onDeidentify
           told == Notify(call, onDeidentify, "onDeidentify", deidentifyResult)
       IN IF Throws(onDeidentify)
          THEN Throw(told, CallbackFailure)
          ELSE CallOperation(told, Get(deidentifyResult, "processedText"))

\* Lines 82-86: the deidentify result arrives, onDeidentify is told, the
\* operation is called with the protected text
wrapWithProtectionAfterDeidentify(call) ==
  IF call.deidentified.state = "rejected"
  THEN Throw(call, call.deidentified.reason)
  ELSE LET deidentifyResult == call.deidentified.value
           onDeidentify == call.options.onDeidentify
           told == Notify(call, onDeidentify, "onDeidentify", deidentifyResult)
       IN IF Throws(onDeidentify)
          THEN Throw(told, CallbackFailure)
          ELSE CallOperation(told, Get(deidentifyResult, "processedText"))

\* wrapWithProtectionAfterOperation without the `result !== null` test:
\* reading a field of null throws a TypeError
wrapWithProtectionAfterOperationNoNullTest(call, answer) ==
  IF ~answer.ok
  THEN Throw([call EXCEPT !.trace = Append(@, Ev("operation.fail", answer.error))],
             answer.error)
  ELSE LET result == answer.value
           got == [call EXCEPT !.result = result,
                               !.trace = Append(@, Ev("operation.ok", result))]
           reidentifyOutput == ReidentifyOutputOrDefault(call.options)
           reidentifyField == call.options.reidentifyField
       IN IF ~Truthy(reidentifyOutput)
          THEN Return(got, result)
          ELSE IF TypeOf(result) = "string"
          THEN CallReidentify(got, result, "string")
          ELSE IF Truthy(reidentifyField) /\ TypeOf(result) = "object"
          THEN IF result = Null
               THEN Throw(got, ErrorObj("Cannot read properties of null"))
               ELSE LET fieldValue == Property(result, reidentifyField.str) IN
                    IF TypeOf(fieldValue) = "string"
                    THEN CallReidentify(got, fieldValue, "field")
                    ELSE Return(got, result)
          ELSE Return(got, result)

\* Lines 86-113: the operation has settled
wrapWithProtectionAfterOperation(call, answer) ==
  IF ~answer.ok
  THEN Throw([call EXCEPT !.trace = Append(@, Ev("operation.fail", answer.error))],
             answer.error)
  ELSE LET result == answer.value
           got == [call EXCEPT !.result = result,
                               !.trace = Append(@, Ev("operation.ok", result))]
           reidentifyOutput == ReidentifyOutputOrDefault(call.options)
           reidentifyField == call.options.reidentifyField
       IN IF ~Truthy(reidentifyOutput)
          THEN Return(got, result)
          ELSE IF TypeOf(result) = "string"
          THEN CallReidentify(got, result, "string")
          ELSE IF Truthy(reidentifyField) /\ TypeOf(result) = "object" /\ result # Null
          THEN LET fieldValue == Property(result, reidentifyField.str) IN
               IF TypeOf(fieldValue) = "string"
               THEN CallReidentify(got, fieldValue, "field")
               ELSE Return(got, result)
          ELSE Return(got, result)

\* wrapWithProtectionAfterReidentify falling back to the operation's result
\* when reidentify failed
wrapWithProtectionAfterReidentifyFallback(call) ==
  IF call.reidentified.state = "rejected"
  THEN Return(call, call.result)
  ELSE LET processedText == call.reidentified.value.processedText
           onReidentify == call.options.onReidentify
           told == Notify(call, onReidentify, "onReidentify", processedText)
       IN IF Throws(onReidentify)
          THEN Throw(told, CallbackFailure)
          ELSE IF call.path = "string"
          THEN Return(told, processedText)
          ELSE Return(told, Spread(call.result, call.options.reidentifyField.str,
                                   processedText))

\* wrapWithProtectionAfterReidentify writing the restored text into the
\* operation's own object: result[reidentifyField] = processedText
wrapWithProtectionAfterReidentifyInPlace(call) ==
  IF call.reidentified.state = "rejected"
  THEN Throw(call, call.reidentified.reason)
  ELSE LET processedText == call.reidentified.value.processedText
           onReidentify == call.options.onReidentify
           told == Notify(call, onReidentify, "onReidentify", processedText)
       IN IF Throws(onReidentify)
          THEN Throw(told, CallbackFailure)
          ELSE IF call.path = "string"
          THEN Return(told, processedText)
          ELSE LET written == Spread(call.result, call.options.reidentifyField.str,
                                     processedText)
               IN Return([told EXCEPT !.result = written], written)

\* Lines 95-97 and 104-109: the reidentify result arrives, onReidentify is
\* told, the restored text (or the object holding it) is returned
wrapWithProtectionAfterReidentify(call) ==
  IF call.reidentified.state = "rejected"
  THEN Throw(call, call.reidentified.reason)
  ELSE LET processedText == call.reidentified.value.processedText
           onReidentify == call.options.onReidentify
           told == Notify(call, onReidentify, "onReidentify", processedText)
       IN IF Throws(onReidentify)
          THEN Throw(told, CallbackFailure)
          ELSE IF call.path = "string"
          THEN Return(told, processedText)
          ELSE Return(told, Spread(call.result, call.options.reidentifyField.str,
                                   processedText))

(***************************************************************************)
(* SkyflowMCP.wrap (client/SkyflowMCP.ts), resumed after each await.       *)
(***************************************************************************)
\* wrapAfterDeidentify reading the protected text of a field shared by the
\* invocations (the deidentify result of the first one that has one)
wrapAfterDeidentifyShared(call) ==
  IF call.deidentified.state = "rejected"
  THEN Throw(call, call.deidentified.reason)
  ELSE LET holders == {d \in DOMAIN calls : calls[d].deidentified.state = "fulfilled"}
           first == CHOOSE d \in holders : \A e \in holders : d <= e
       IN CallOperation(call, Get(calls[first].deidentified.value, "processedText"))

\* Lines 405-411
wrapAfterDeidentify(call) ==
  IF call.deidentified.state = "rejected"
  THEN Throw(call, call.deidentified.reason)
  ELSE CallOperation(call, Get(call.deidentified.value, "processedText"))

\* wrapAfterOperation with no default for reidentifyOutput: an omitted
\* option counts as false
wrapAfterOperationNoDefault(call, answer) ==
  IF ~answer.ok
  THEN Throw([call EXCEPT !.trace = Append(@, Ev("operation.fail", answer.error))],
             answer.error)
  ELSE LET result == answer.value
           got == [call EXCEPT !.result = result,
                               !.trace = Append(@, Ev("operation.ok", result))]
           shouldReidentify == Truthy(call.options.reidentifyOutput)
       IN IF shouldReidentify /\ TypeOf(result) = "string"
          THEN CallReidentify(got, result, "string")
          ELSE Return(got, result)

\* wrapAfterOperation with the operation's failure caught and reclassified
wrapAfterOperationReclassifying(call, answer) ==
  IF ~answer.ok
  THEN Throw([call EXCEPT !.trace = Append(@, Ev("operation.fail", answer.error))],
             reidentifyCatch(answer.error))
  ELSE LET result == answer.value
           got == [call EXCEPT !.result = result,
                               !.trace = Append(@, Ev("operation.ok", result))]
           shouldReidentify == call.options.reidentifyOutput # Bool(FALSE)
       IN IF shouldReidentify /\ TypeOf(result) = "string"
          THEN CallReidentify(got, result, "string")
          ELSE Return(got, result)

\* Lines 411-420
wrapAfterOperation(call, answer) ==
  IF ~answer.ok
  THEN Throw([call EXCEPT !.trace = Append(@, Ev("operation.fail", answer.error))],
             answer.error)
  ELSE LET result == answer.value
           got == [call EXCEPT !.result = result,
                               !.trace = Append(@, Ev("operation.ok", result))]
           shouldReidentify == call.options.reidentifyOutput # Bool(FALSE)
       IN IF shouldReidentify /\ TypeOf(result) = "string"
          THEN CallReidentify(got, result, "string")
          ELSE Return(got, result)

\* Lines 416-417
wrapAfterReidentify(call) ==
  IF call.reidentified.state = "rejected"
  THEN Throw(call, call.reidentified.reason)
  ELSE Return(call, call.reidentified.value.processedText)

(***************************************************************************)
(* Construction: new SkyflowMCP(config) and createFromEnv(overrides).      *)
(***************************************************************************)
\* The client before it is constructed
NoClient == [stage |-> "none"]

\* new SkyflowMCP(config), `skyflow` being what new Skyflow({...}) answers:
\* the instance, or the ConfigurationError thrown
SkyflowMCP(config, skyflow) ==
  LET validation == validateVaultConfig([vaultId |-> config.vaultId,
                                         vaultUrl |-> config.vaultUrl,
                                         accountId |-> config.accountId,
                                         workspaceId |-> config.workspaceId])
  IN IF ~validation.isValid \/ "config" \notin DOMAIN validation
     THEN [threw |-> TRUE,
           error |-> ConfigurationError(
                       IF "error" \in DOMAIN validation /\ validation.error # ""
                       THEN validation.error ELSE "Invalid configuration",
                       Undefined)]
     ELSE IF ~skyflow.ok
     THEN [threw |-> TRUE,
           error |-> ConfigurationError(
                       "Failed to initialize Skyflow SDK",
                       IF InstanceOfError(skyflow.error) THEN skyflow.error ELSE Undefined)]
     ELSE [threw |-> FALSE,
           value |-> [stage |-> "ready",
                      config |-> config,
                      vaultId |-> validation.config.vaultId,
                      skyflow |-> [vaultConfigs |->
                                     <<[vaultId |-> validation.config.vaultId,
                                        clusterId |-> validation.config.clusterId,
                                        credentials |-> config.credentials]>>]]]

\* createFromEnv taking SKYFLOW_API_KEY before SKYFLOW_BEARER_TOKEN
createFromEnvApiKeyFirst(overrides, env, skyflow) ==
  LET vaultId == OrElse(OptionalChain(overrides, "vaultId"), env.SKYFLOW_VAULT_ID)
      vaultUrl == OrElse(OptionalChain(overrides, "vaultUrl"), env.SKYFLOW_VAULT_URL)
      apiKey == env.SKYFLOW_API_KEY
      bearerToken == env.SKYFLOW_BEARER_TOKEN
      given == OptionalChain(overrides, "credentials")
  IN IF ~Truthy(vaultId)
     THEN [threw |-> TRUE,
           error |-> ConfigurationError(
                       "SKYFLOW_VAULT_ID environment variable is required", Undefined)]
     ELSE IF ~Truthy(vaultUrl)
     THEN [threw |-> TRUE,
           error |-> ConfigurationError(
                       "SKYFLOW_VAULT_URL environment variable is required", Undefined)]
     ELSE IF ~Truthy(given) /\ ~Truthy(bearerToken) /\ ~Truthy(apiKey)
     THEN [threw |-> TRUE,
           error |-> ConfigurationError(
                       "Either SKYFLOW_BEARER_TOKEN or SKYFLOW_API_KEY "
                       \o "environment variable is required", Undefined)]
     ELSE LET credentials == IF Truthy(given) THEN given
                             ELSE IF Truthy(apiKey) THEN Obj([apiKey |-> apiKey])
                             ELSE Obj([token |-> bearerToken])
          IN SkyflowMCP([vaultId |-> vaultId,
                         vaultUrl |-> vaultUrl,
                         credentials |-> credentials,
                         accountId |-> OrElse(OptionalChain(overrides, "accountId"),
                                              env.SKYFLOW_ACCOUNT_ID),
                         workspaceId |-> OrElse(OptionalChain(overrides, "workspaceId"),
                                                env.SKYFLOW_WORKSPACE_ID),
                         options |-> OptionalChain(overrides, "options")],
                        skyflow)

\* createFromEnv(overrides), `env` being process.env
createFromEnv(overrides, env, skyflow) ==
  LET vaultId == OrElse(OptionalChain(overrides, "vaultId"), env.SKYFLOW_VAULT_ID)
      vaultUrl == OrElse(OptionalChain(overrides, "vaultUrl"), env.SKYFLOW_VAULT_URL)
      apiKey == env.SKYFLOW_API_KEY
      bearerToken == env.SKYFLOW_BEARER_TOKEN
      given == OptionalChain(overrides, "credentials")
  IN IF ~Truthy(vaultId)
     THEN [threw |-> TRUE,
           error |-> ConfigurationError(
                       "SKYFLOW_VAULT_ID environment variable is required", Undefined)]
     ELSE IF ~Truthy(vaultUrl)
     THEN [threw |-> TRUE,
           error |-> ConfigurationError(
                       "SKYFLOW_VAULT_URL environment variable is required", Undefined)]
     ELSE IF ~Truthy(given) /\ ~Truthy(bearerToken) /\ ~Truthy(apiKey)
     THEN [threw |-> TRUE,
           error |-> ConfigurationError(
                       "Either SKYFLOW_BEARER_TOKEN or SKYFLOW_API_KEY "
                       \o "environment variable is required", Undefined)]
     ELSE LET credentials == IF Truthy(given) THEN given
                             ELSE IF Truthy(bearerToken) THEN Obj([token |-> bearerToken])
                             ELSE Obj([apiKey |-> apiKey])
          IN SkyflowMCP([vaultId |-> vaultId,
                         vaultUrl |-> vaultUrl,
                         credentials |-> credentials,
                         accountId |-> OrElse(OptionalChain(overrides, "accountId"),
                                              env.SKYFLOW_ACCOUNT_ID),
                         workspaceId |-> OrElse(OptionalChain(overrides, "workspaceId"),
                                                env.SKYFLOW_WORKSPACE_ID),
                         options |-> OptionalChain(overrides, "options")],
                        skyflow)

\* new Skyflow({...}) of the vault's library: the instance, or a failure
SkyflowAnswers ==
  {Ok(Undefined), Fail(ErrorObj("Invalid credentials")), Fail(Str("init failed"))}

(***************************************************************************)
(* The steps of an invocation.  Between two steps the invocation is        *)
(* suspended at an await and any other invocation may run.                 *)
(***************************************************************************)
\* How often a pure function is run on one input
MaxRuns == 2

Step(c, next) == /\ calls' = [calls EXCEPT ![c] = next]
                 /\ UNCHANGED client

\* The caller invokes an envelope or client.deidentify, which run up to the
\* vault's deidentifyText, or client.reidentify, which runs up to the vault's
\* reidentifyText
Invoke(c) ==
  /\ calls[c].pc = "called"
  /\ calls[c].api \in {"wrapWithProtection", "wrap", "deidentify", "reidentify"}
  /\ Step(c, IF calls[c].api = "reidentify"
             THEN CallReidentify(calls[c], Str(calls[c].input), "direct")
             ELSE CallDeidentify(client.config, calls[c]))

\* The vault answers deidentifyText (with any answer, or one of the few)
DeidentifyTextSettles(c, few) ==
  /\ calls[c].pc = "deidentifyText"
  /\ \E answer \in IF few THEN ConcDeidentifyTextAnswers(calls[c].request)
                   ELSE DeidentifyTextAnswers(calls[c].request) :
       Step(c, SettleDeidentify(calls[c], answer))

\* The caller of client.deidentify resumes with what it settled to: the
\* envelope goes on, a direct caller has its result or its error
ResumeAfterDeidentify(c) ==
  /\ calls[c].pc = "awaitDeidentify"
  /\ Step(c, CASE calls[c].api = "wrapWithProtection" ->
                    wrapWithProtectionAfterDeidentify(calls[c])
               [] calls[c].api = "wrap" -> wrapAfterDeidentify(calls[c])
               [] OTHER -> Settle(calls[c], calls[c].deidentified))

\* The caller's operation settles and the envelope resumes
OperationSettles(c, few) ==
  /\ calls[c].pc = "operation"
  /\ \E answer \in IF few THEN ConcOperationAnswers(calls[c].protectedInput)
                   ELSE OperationAnswers(calls[c].protectedInput) :
       Step(c, IF calls[c].api = "wrapWithProtection"
               THEN wrapWithProtectionAfterOperation(calls[c], answer)
               ELSE wrapAfterOperation(calls[c], answer))

\* The vault answers reidentifyText
ReidentifyTextSettles(c, few) ==
  /\ calls[c].pc = "reidentifyText"
  /\ \E answer \in IF few THEN ConcReidentifyTextAnswers(calls[c].reidentifyArg)
                   ELSE ReidentifyTextAnswers(calls[c].reidentifyArg) :
       Step(c, SettleReidentify(calls[c], answer))

\* The caller of client.reidentify resumes with what it settled to
ResumeAfterReidentify(c) ==
  /\ calls[c].pc = "awaitReidentify"
  /\ Step(c, CASE calls[c].api = "wrapWithProtection" ->
                    wrapWithProtectionAfterReidentify(calls[c])
               [] calls[c].api = "wrap" -> wrapAfterReidentify(calls[c])
               [] OTHER -> Settle(calls[c], calls[c].reidentified))

\* new SkyflowMCP(config): the client is the instance constructed
Construct(c) ==
  /\ calls[c].pc = "called"
  /\ calls[c].api = "new SkyflowMCP"
  /\ \E skyflow \in SkyflowAnswers :
       LET made == SkyflowMCP(calls[c].input, skyflow) IN
       IF made.threw
       THEN Step(c, Throw(calls[c], made.error))
       ELSE /\ calls' = [calls EXCEPT ![c] = Return(calls[c], made.value)]
            /\ client' = made.value

\* createFromEnv(overrides)
CreateFromEnv(c) ==
  /\ calls[c].pc = "called"
  /\ calls[c].api = "createFromEnv"
  /\ \E skyflow \in SkyflowAnswers :
       LET made == createFromEnv(calls[c].input.overrides, calls[c].input.env, skyflow) IN
       IF made.threw
       THEN Step(c, Throw(calls[c], made.error))
       ELSE /\ calls' = [calls EXCEPT ![c] = Return(calls[c], made.value)]
            /\ client' = made.value

\* A method of the constructed client, or an envelope around it, is invoked
InvokeOnClient(c) ==
  /\ client.stage = "ready"
  /\ Invoke(c)

\* A pure function runs (again): what it returns or throws is recorded
Ran(call, name, value) ==
  [call EXCEPT !.pc = "done",
               !.outcome = IF name = "return" THEN Fulfilled(value) ELSE Rejected(value),
               !.trace = Append(@, Ev(name, value))]

ExtractClusterId(c) ==
  /\ calls[c].api = "extractClusterId"
  /\ Len(calls[c].trace) < MaxRuns
  /\ Step(c, Ran(calls[c], "return", extractClusterId(calls[c].input)))

ValidateVaultConfig(c) ==
  /\ calls[c].api = "validateVaultConfig"
  /\ Len(calls[c].trace) < MaxRuns
  /\ Step(c, Ran(calls[c], "return", validateVaultConfig(calls[c].input)))

IsValidEntity(c) ==
  /\ calls[c].api = "isValidEntity"
  /\ Len(calls[c].trace) < MaxRuns
  /\ Step(c, Ran(calls[c], "return", isValidEntity(calls[c].input)))

GetEntityEnum(c) ==
  /\ calls[c].api = "getEntityEnum"
  /\ Len(calls[c].trace) < MaxRuns
  /\ LET got == getEntityEnum(calls[c].input) IN
     Step(c, IF got.threw
             THEN Ran(calls[c], "throw", got.error)
             ELSE Ran(calls[c], "return", got.value))

(***************************************************************************)
(* Spec: one invocation, over every option and every answer.               *)
(***************************************************************************)
\* The client as constructed: its configuration never changes afterwards
ClientConfigs ==
  {[options |-> [defaultTokenType |-> Undefined, defaultEntities |-> Undefined]],
   [options |-> [defaultTokenType |-> Str("ENTITY_UNIQUE_COUNTER"),
                 defaultEntities |-> Arr(<<"name">>)]]}

DeidentifyOptionChoices ==
  {[tokenType |-> Undefined, entities |-> Undefined],
   [tokenType |-> Str("ENTITY_ONLY"), entities |-> Arr(<<"email_address">>)],
   [tokenType |-> Undefined, entities |-> Arr(<<"ssn", "bogus">>)]}

ReidentifyOutputChoices == {Undefined, Bool(TRUE), Bool(FALSE)}

ReidentifyFieldChoices == {Undefined, Str(""), Str("output")}

CallbackChoices == {Undefined, Callback("returns"), Callback("throws")}

Options(d, reidentifyOutput, reidentifyField, onDeidentify, onReidentify) ==
  [tokenType |-> d.tokenType, entities |-> d.entities,
   reidentifyOutput |-> reidentifyOutput, reidentifyField |-> reidentifyField,
   onDeidentify |-> onDeidentify, onReidentify |-> onReidentify]

\* WrapWithProtectionOptions
WrapWithProtectionOptions ==
  {Options(d, ro, rf, od, orr) :
     d \in DeidentifyOptionChoices, ro \in ReidentifyOutputChoices,
     rf \in ReidentifyFieldChoices, od \in CallbackChoices, orr \in CallbackChoices}

\* WrapOptions: no reidentifyField, no callbacks
WrapOptions ==
  {Options(d, ro, Undefined, Undefined, Undefined) :
     d \in DeidentifyOptionChoices, ro \in ReidentifyOutputChoices}

NewCalls ==
  {NewCall("wrapWithProtection", i, o) : i \in Inputs, o \in WrapWithProtectionOptions}
  \cup {NewCall("wrap", i, o) : i \in Inputs, o \in WrapOptions}

\* The one invocation of Spec
OneCall == {1}

Init ==
  /\ client \in [config : ClientConfigs]
  /\ calls \in [OneCall -> NewCalls]

Next ==
  \E c \in OneCall :
    \/ Invoke(c)
    \/ DeidentifyTextSettles(c, FALSE)
    \/ ResumeAfterDeidentify(c)
    \/ OperationSettles(c, FALSE)
    \/ ReidentifyTextSettles(c, FALSE)
    \/ ResumeAfterReidentify(c)

Spec == Init /\ [][Next]_vars

(***************************************************************************)
(* What a trace tells about an invocation.                                 *)
(***************************************************************************)
\* The places of the events of one name in an invocation's trace
Places(call, name) == {i \in 1..Len(call.trace) : call.trace[i].ev = name}

Count(call, name) == Cardinality(Places(call, name))

Happened(call, name) == Places(call, name) # {}

\* The argument of the one event of that name
ArgOf(call, name) == call.trace[CHOOSE i \in Places(call, name) : TRUE].arg

IsClass(outcome, class) ==
  /\ outcome.state = "rejected"
  /\ outcome.reason.t = "error"
  /\ outcome.reason.class = class

(***************************************************************************)
(* C1: when the vault's deidentify call fails, the invocation rejects with *)
(* a DeidentifyError (it is waiting to resume, or it has rejected with     *)
(* one), and neither the operation nor the vault's reidentify call is      *)
(* invoked.                                                                *)
(***************************************************************************)
C1_DeidentifyFailureRejects ==
  \A c \in DOMAIN calls :
    Happened(calls[c], "deidentifyText.fail") =>
      /\ calls[c].pc \in {"awaitDeidentify", "done"}
      /\ IsClass(calls[c].deidentified, "DeidentifyError")
      /\ calls[c].pc = "done" =>
           /\ IsClass(calls[c].outcome, "DeidentifyError")
           /\ calls[c].outcome.reason.code = "DEIDENTIFY_ERROR"
      /\ Count(calls[c], "operation.call") = 0
      /\ Count(calls[c], "reidentifyText.call") = 0

C1_Witness ==
  \E c \in DOMAIN calls :
    /\ Happened(calls[c], "deidentifyText.fail")
    /\ calls[c].pc = "done"
    /\ calls[c].outcome.state = "rejected"

(***************************************************************************)
(* C4: with reidentifyOutput false the invocation returns the operation's  *)
(* result unchanged, whatever its type, and the vault's reidentify call    *)
(* is never invoked.                                                       *)
(***************************************************************************)
C4_SkipReidentify ==
  \A c \in DOMAIN calls :
    calls[c].options.reidentifyOutput = Bool(FALSE) =>
      /\ Count(calls[c], "reidentifyText.call") = 0
      /\ Happened(calls[c], "operation.ok") =>
           /\ calls[c].pc = "done"
           /\ calls[c].outcome = Fulfilled(ArgOf(calls[c], "operation.ok"))

C4_Witness ==
  \E c \in DOMAIN calls :
    /\ calls[c].options.reidentifyOutput = Bool(FALSE)
    /\ calls[c].pc = "done"
    /\ calls[c].outcome = Fulfilled(Str(Tokenize(calls[c].input)))

(***************************************************************************)
(* C5: a result that is no string passes through unchanged, and the call   *)
(* resolves without the vault's reidentify call, when no reidentifyField   *)
(* is configured, or the result is null or no object, or the named field   *)
(* is missing or holds no string.                                          *)
(***************************************************************************)
NoFieldToReidentify(call, result) ==
  \/ call.options.reidentifyField = Undefined
  \/ result = Null
  \/ TypeOf(result) # "object"
  \/ result.t # "object"
  \/ call.options.reidentifyField.str \notin DOMAIN result.fields
  \/ TypeOf(result.fields[call.options.reidentifyField.str]) # "string"

C5_NonStringPassesThrough ==
  \A c \in DOMAIN calls :
    (/\ Happened(calls[c], "operation.ok")
     /\ TypeOf(ArgOf(calls[c], "operation.ok")) # "string"
     /\ NoFieldToReidentify(calls[c], ArgOf(calls[c], "operation.ok"))) =>
      /\ calls[c].pc = "done"
      /\ calls[c].outcome = Fulfilled(ArgOf(calls[c], "operation.ok"))
      /\ Count(calls[c], "reidentifyText.call") = 0

C5_Witness ==
  \E c \in DOMAIN calls :
    /\ calls[c].options.reidentifyField = Str("output")
    /\ calls[c].options.reidentifyOutput # Bool(FALSE)
    /\ Happened(calls[c], "operation.ok")
    /\ ArgOf(calls[c], "operation.ok") = Obj([output |-> Num(7), other |-> calls[c].protectedInput])
    /\ calls[c].outcome = Fulfilled(ArgOf(calls[c], "operation.ok"))

(***************************************************************************)
(* C7: when the operation fails, the invocation rejects with that very     *)
(* failure value, and the vault's reidentify call is never invoked.        *)
(***************************************************************************)
C7_OperationFailureUnchanged ==
  \A c \in DOMAIN calls :
    Happened(calls[c], "operation.fail") =>
      /\ calls[c].pc = "done"
      /\ calls[c].outcome = Rejected(ArgOf(calls[c], "operation.fail"))
      /\ Count(calls[c], "reidentifyText.call") = 0

C7_Witness ==
  \E c \in DOMAIN calls :
    /\ Happened(calls[c], "operation.fail")
    /\ calls[c].outcome = Rejected(ErrorObj("operation failed"))

(***************************************************************************)
(* C2: in every invocation whose deidentify call succeeds, the operation   *)
(* is invoked exactly once, with the processedText deidentify returned     *)
(* (never the raw input).                                                  *)
(***************************************************************************)
C2_OperationOnceWithProtectedText ==
  \A c \in DOMAIN calls :
    Happened(calls[c], "deidentifyText.ok") =>
      /\ Count(calls[c], "operation.call") <= 1
      /\ \A i \in Places(calls[c], "operation.call") :
           /\ calls[c].trace[i].arg = Get(ArgOf(calls[c], "deidentifyText.ok"), "processedText")
           /\ calls[c].trace[i].arg # Str(calls[c].input)
      /\ calls[c].pc = "done" => Count(calls[c], "operation.call") = 1

(***************************************************************************)
(* C3: when reidentifyOutput is not false and the operation returns a      *)
(* string, reidentify is called on that string (the string path, never the *)
(* field path) and, reidentify succeeding, the invocation returns its      *)
(* processedText.                                                          *)
(***************************************************************************)
C3_StringResultReidentified ==
  \A c \in DOMAIN calls :
    (/\ calls[c].options.reidentifyOutput # Bool(FALSE)
     /\ Happened(calls[c], "operation.ok")
     /\ TypeOf(ArgOf(calls[c], "operation.ok")) = "string") =>
      /\ Count(calls[c], "reidentifyText.call") = 1
      /\ ArgOf(calls[c], "reidentifyText.call") = ArgOf(calls[c], "operation.ok")
      /\ calls[c].path = "string"
      /\ (Happened(calls[c], "reidentifyText.ok") /\ calls[c].pc = "done") =>
           calls[c].outcome =
             Fulfilled(Get(ArgOf(calls[c], "reidentifyText.ok"), "processedText"))

(***************************************************************************)
(* C6: when reidentifyField names a field, reidentifyOutput is not false   *)
(* and the operation returns an object whose field of that name is a       *)
(* string, wrapWithProtection calls reidentify on that field's value only  *)
(* and, reidentify succeeding, returns the operation's result with that    *)
(* one field replaced by the processedText and every sibling as it was.    *)
(***************************************************************************)
FieldToReidentify(call, result) ==
  /\ call.api = "wrapWithProtection"
  /\ call.options.reidentifyOutput # Bool(FALSE)
  /\ call.options.reidentifyField # Undefined
  /\ result.t = "object"
  /\ call.options.reidentifyField.str \in DOMAIN result.fields
  /\ TypeOf(result.fields[call.options.reidentifyField.str]) = "string"

C6_FieldReidentified ==
  \A c \in DOMAIN calls :
    (/\ Happened(calls[c], "operation.ok")
     /\ FieldToReidentify(calls[c], ArgOf(calls[c], "operation.ok"))) =>
      LET result == ArgOf(calls[c], "operation.ok")
          name == calls[c].options.reidentifyField.str
      IN /\ Count(calls[c], "reidentifyText.call") = 1
         /\ ArgOf(calls[c], "reidentifyText.call") = result.fields[name]
         /\ (Happened(calls[c], "reidentifyText.ok") /\ calls[c].pc = "done") =>
              /\ calls[c].outcome.state = "fulfilled"
              /\ calls[c].outcome.value.t = "object"
              /\ DOMAIN calls[c].outcome.value.fields = DOMAIN result.fields
              /\ \A f \in DOMAIN result.fields :
                   calls[c].outcome.value.fields[f] =
                     IF f = name
                     THEN Get(ArgOf(calls[c], "reidentifyText.ok"), "processedText")
                     ELSE result.fields[f]

(***************************************************************************)
(* C9: the callbacks never affect the control flow of wrapWithProtection:  *)
(* whatever they do, the invocation ends as the same invocation without    *)
(* callbacks ends on the same answers of the vault and of the operation.   *)
(***************************************************************************)
WithoutCallbacks(call) ==
  NewCall(call.api, call.input,
          [call.options EXCEPT !.onDeidentify = Undefined, !.onReidentify = Undefined])

Answered(call, name) ==
  Happened(call, name \o ".ok") \/ Happened(call, name \o ".fail")

AnswerIn(call, name) ==
  IF Happened(call, name \o ".ok")
  THEN Ok(ArgOf(call, name \o ".ok"))
  ELSE Fail(ArgOf(call, name \o ".fail"))

\* wrapWithProtection without callbacks, run on the answers the trace holds,
\* as far as they go
Replay(config, call) ==
  LET s0 == CallDeidentify(config, WithoutCallbacks(call))
      s1 == IF s0.pc = "deidentifyText" /\ Answered(call, "deidentifyText")
            THEN SettleDeidentify(s0, AnswerIn(call, "deidentifyText")) ELSE s0
      s2 == IF s1.pc = "awaitDeidentify"
            THEN wrapWithProtectionAfterDeidentify(s1) ELSE s1
      s3 == IF s2.pc = "operation" /\ Answered(call, "operation")
            THEN wrapWithProtectionAfterOperation(s2, AnswerIn(call, "operation")) ELSE s2
      s4 == IF s3.pc = "reidentifyText" /\ Answered(call, "reidentifyText")
            THEN SettleReidentify(s3, AnswerIn(call, "reidentifyText")) ELSE s3
  IN IF s4.pc = "awaitReidentify" THEN wrapWithProtectionAfterReidentify(s4) ELSE s4

C9_CallbacksNeverAffectControlFlow ==
  \A c \in DOMAIN calls :
    (calls[c].api = "wrapWithProtection" /\ calls[c].pc = "done") =>
      LET alone == Replay(client.config, calls[c]) IN
      /\ alone.pc = "done"
      /\ alone.outcome = calls[c].outcome
      /\ Count(alone, "operation.call") = Count(calls[c], "operation.call")

(***************************************************************************)
(* C8 as stated: the vault's reidentify call is made at most once per      *)
(* invocation and its deidentify call exactly once.                        *)
(***************************************************************************)
C8_DeidentifyExactlyOnce ==
  \A c \in DOMAIN calls :
    /\ Count(calls[c], "reidentifyText.call") <= 1
    /\ calls[c].pc # "called" => Count(calls[c], "deidentifyText.call") = 1

\* The entity list in effect names a tag getEntityEnum rejects
RejectedTag(config, options) ==
  LET entities == IF options.entities \notin {Undefined, Null}
                  THEN options.entities
                  ELSE config.options.defaultEntities
  IN /\ entities \notin {Undefined, Null}
     /\ \E i \in 1..Len(entities.items) :
          entities.items[i] \notin DOMAIN ENTITY_MAP \cup ObjectPrototypeNames

(***************************************************************************)
(* C8 as amended: the vault's reidentify call is made at most once per     *)
(* invocation, on every path; its deidentify call is made at most once,    *)
(* never again after a failure, and exactly once unless the entity list    *)
(* in effect names a tag getEntityEnum rejects, when it is not made.       *)
(***************************************************************************)
C8_AtMostOnceEach ==
  \A c \in DOMAIN calls :
    /\ Count(calls[c], "reidentifyText.call") <= 1
    /\ Count(calls[c], "deidentifyText.call") <= 1
    /\ calls[c].pc # "called" =>
         Count(calls[c], "deidentifyText.call") =
           IF RejectedTag(client.config, calls[c].options) THEN 0 ELSE 1

C8_Witness ==
  \E c \in DOMAIN calls :
    /\ calls[c].pc = "done"
    /\ calls[c].path = "field"
    /\ calls[c].outcome.state = "fulfilled"
    /\ Count(calls[c], "reidentifyText.call") = 1
    /\ Count(calls[c], "deidentifyText.call") = 1

(***************************************************************************)
(* SpecConc: several invocations on one client, suspended and resumed in   *)
(* any order.                                                              *)
(***************************************************************************)
MaxCalls == 2

ConcCalls == 1..MaxCalls

DefaultOptions(reidentifyField) ==
  Options([tokenType |-> Undefined, entities |-> Undefined],
          Undefined, reidentifyField, Undefined, Undefined)

ConcNewCalls ==
  {NewCall("wrapWithProtection", i, DefaultOptions(Str("output"))) : i \in Inputs}
  \cup {NewCall("wrap", i, DefaultOptions(Undefined)) : i \in Inputs}

InitConc ==
  /\ client = [config |-> [options |-> [defaultTokenType |-> Undefined,
                                        defaultEntities |-> Undefined]]]
  /\ calls \in [ConcCalls -> ConcNewCalls]

NextConc ==
  \E c \in ConcCalls :
    \/ Invoke(c)
    \/ DeidentifyTextSettles(c, TRUE)
    \/ ResumeAfterDeidentify(c)
    \/ OperationSettles(c, TRUE)
    \/ ReidentifyTextSettles(c, TRUE)
    \/ ResumeAfterReidentify(c)

SpecConc == InitConc /\ [][NextConc]_vars

\* What an invocation running alone returns for the result of its operation,
\* the vault restoring the text it is handed
ReturnedAlone(call, result) ==
  IF call.options.reidentifyOutput = Bool(FALSE) THEN result
  ELSE IF result.t = "string" THEN Str(Restore(result.str))
  ELSE IF /\ call.api = "wrapWithProtection"
          /\ call.options.reidentifyField = Str("output")
          /\ result.t = "object"
          /\ "output" \in DOMAIN result.fields
          /\ result.fields["output"].t = "string"
  THEN Obj([result.fields EXCEPT !["output"] = Str(Restore(@.str))])
  ELSE result

\* Each invocation's operation is given the text made of its own input, and
\* each value returned is made of its own operation's result
OwnDataOnly ==
  \A c \in DOMAIN calls :
    /\ \A i \in Places(calls[c], "deidentifyText.call") :
         calls[c].trace[i].arg.text = calls[c].input
    /\ \A i \in Places(calls[c], "operation.call") :
         calls[c].trace[i].arg = Str(Tokenize(calls[c].input))
    /\ \A i \in Places(calls[c], "reidentifyText.call") :
         calls[c].trace[i].arg \in
           {ArgOf(calls[c], "operation.ok"),
            Property(ArgOf(calls[c], "operation.ok"), "output")}
    /\ calls[c].outcome.state = "fulfilled" =>
         calls[c].outcome.value = ReturnedAlone(calls[c], ArgOf(calls[c], "operation.ok"))
    /\ calls[c].outcome.state = "rejected" =>
         \/ /\ Happened(calls[c], "operation.fail")
            /\ calls[c].outcome.reason = ArgOf(calls[c], "operation.fail")
         \/ /\ IsClass(calls[c].outcome, "DeidentifyError")
            /\ calls[c].outcome.reason.cause = ArgOf(calls[c], "deidentifyText.fail")
         \/ /\ IsClass(calls[c].outcome, "ReidentifyError")
            /\ calls[c].outcome.reason.cause = ArgOf(calls[c], "reidentifyText.fail")

\* A step of one invocation leaves every other invocation, and the client, as
\* they were
OneCallPerStep ==
  /\ client' = client
  /\ \A c, d \in DOMAIN calls :
       (calls'[c] # calls[c] /\ d # c) => calls'[d] = calls[d]

(***************************************************************************)
(* C10: concurrent invocations on one client are independent under every   *)
(* interleaving of their suspension points: each operation is given the    *)
(* processedText of its own input, each invocation returns the value made  *)
(* of its own operation's result, and no step of one invocation changes    *)
(* the client or another invocation.                                       *)
(***************************************************************************)
C10_ConcurrentCallsIndependent == []OwnDataOnly /\ [][OneCallPerStep]_vars

\* Two invocations with different inputs in flight at once: the first has
\* ended with its own input restored while the second, whose operation was
\* given the token of its own input, is suspended in the vault's reidentify
C10_Witness ==
  /\ calls[1].input # calls[2].input
  /\ calls[1].pc = "done"
  /\ calls[1].outcome = Fulfilled(Str(calls[1].input))
  /\ calls[2].pc = "reidentifyText"
  /\ calls[2].path = "field"
  /\ calls[2].protectedInput = Str(Tokenize(calls[2].input))

(***************************************************************************)
(* The two envelopes compared: an invocation run again through the other   *)
(* envelope, on the answers its trace holds.                               *)
(***************************************************************************)
\* The envelope `api` called with the input and options of `call`, run on the
\* answers the trace of `call` holds, as far as `call` has run
ReplayAs(api, config, call) ==
  LET s0 == IF call.pc = "called"
            THEN NewCall(api, call.input, call.options)
            ELSE CallDeidentify(config, NewCall(api, call.input, call.options))
      s1 == IF s0.pc = "deidentifyText" /\ Answered(call, "deidentifyText")
            THEN SettleDeidentify(s0, AnswerIn(call, "deidentifyText")) ELSE s0
      s2 == IF s1.pc = "awaitDeidentify" /\ call.pc # "awaitDeidentify"
            THEN IF api = "wrapWithProtection"
                 THEN wrapWithProtectionAfterDeidentify(s1)
                 ELSE wrapAfterDeidentify(s1)
            ELSE s1
      s3 == IF s2.pc = "operation" /\ Answered(call, "operation")
            THEN IF api = "wrapWithProtection"
                 THEN wrapWithProtectionAfterOperation(s2, AnswerIn(call, "operation"))
                 ELSE wrapAfterOperation(s2, AnswerIn(call, "operation"))
            ELSE s2
      s4 == IF s3.pc = "reidentifyText" /\ Answered(call, "reidentifyText")
            THEN SettleReidentify(s3, AnswerIn(call, "reidentifyText")) ELSE s3
  IN IF s4.pc = "awaitReidentify" /\ call.pc # "awaitReidentify"
     THEN IF api = "wrapWithProtection"
          THEN wrapWithProtectionAfterReidentify(s4)
          ELSE wrapAfterReidentify(s4)
     ELSE s4

OtherEnvelope(api) == IF api = "wrap" THEN "wrapWithProtection" ELSE "wrap"

\* Options that client.wrap takes too: tokenType, entities and a
\* reidentifyOutput that is true, false or omitted
PlainOptions(options) ==
  /\ options.reidentifyField = Undefined
  /\ options.onDeidentify = Undefined
  /\ options.onReidentify = Undefined
  /\ options.reidentifyOutput \in {Undefined, Bool(TRUE), Bool(FALSE)}

(***************************************************************************)
(* C11: called without reidentifyField and without callbacks, client.wrap  *)
(* and wrapWithProtection make the same sequence of deidentify, operation  *)
(* and reidentify calls with the same arguments and settle alike: at every *)
(* point of an invocation, the other envelope run on the same answers has  *)
(* the same trace, stands at the same place and has the same outcome.      *)
(***************************************************************************)
C11_EnvelopesAgree ==
  \A c \in DOMAIN calls :
    (calls[c].api \in {"wrap", "wrapWithProtection"} /\ PlainOptions(calls[c].options)) =>
      LET other == ReplayAs(OtherEnvelope(calls[c].api), client.config, calls[c]) IN
      /\ other.trace = calls[c].trace
      /\ other.pc = calls[c].pc
      /\ other.outcome = calls[c].outcome

\* client.wrap, reidentifyOutput omitted, has returned the restored input,
\* as wrapWithProtection does on the same answers
C11_Witness ==
  \E c \in DOMAIN calls :
    /\ calls[c].api = "wrap"
    /\ calls[c].options.reidentifyOutput = Undefined
    /\ calls[c].pc = "done"
    /\ Count(calls[c], "reidentifyText.call") = 1
    /\ calls[c].outcome = Fulfilled(Str(calls[c].input))
    /\ ReplayAs("wrapWithProtection", client.config, calls[c]).outcome = calls[c].outcome

(***************************************************************************)
(* SpecUtil: the pure functions of utils/validation.ts and                 *)
(* utils/entityMaps.ts, each run on one input, once or again.              *)
(***************************************************************************)
\* Vault URLs: well formed with each scheme and with none, with no ".vault",
\* with more labels, with nothing before ".vault", and the empty string
VaultUrls ==
  {"https://abc123.vault.skyflowapis.com",
   "abc123.vault.skyflowapis.com",
   "http://abc123.vault.skyflowapis.com",
   "https://ebfc9bee4242.vault.skyflowapis.com",
   "https://eu.abc123.vault.skyflowapis.com",
   "https://invalid.com",
   "invalid",
   "",
   ".vault.skyflowapis.com",
   "https://.vault.skyflowapis.com",
   "https://vault.skyflowapis.com"}

\* Entity names: the vocabulary, and names outside it
EntityNames ==
  {ENTITY_TYPES[i] : i \in 1..Len(ENTITY_TYPES)}
  \cup {"", "EMAIL_ADDRESS", "Ssn", "invalid_entity", "bogus",
        "toString", "constructor", "__proto__"}

VaultParams ==
  [vaultId : {Undefined, Str(""), Str("vault-123")},
   vaultUrl : {Undefined} \cup {Str(u) : u \in VaultUrls},
   accountId : {Undefined, Str("acc-1")},
   workspaceId : {Undefined, Str("ws-1")}]

UtilCalls ==
  {NewCall("extractClusterId", u, Undefined) : u \in VaultUrls}
  \cup {NewCall("validateVaultConfig", p, Undefined) : p \in VaultParams}
  \cup {NewCall("isValidEntity", e, Undefined) : e \in EntityNames}
  \cup {NewCall("getEntityEnum", e, Undefined) : e \in EntityNames}

InitUtil ==
  /\ client = NoClient
  /\ calls \in [OneCall -> UtilCalls]

NextUtil ==
  \E c \in OneCall :
    \/ ExtractClusterId(c)
    \/ ValidateVaultConfig(c)
    \/ IsValidEntity(c)
    \/ GetEntityEnum(c)

SpecUtil == InitUtil /\ [][NextUtil]_vars

\* What a run of a pure function returned
Returned(call) == {call.trace[i].arg : i \in Places(call, "return")}

(***************************************************************************)
(* C16: validateVaultConfig returns isValid false, with no config field,   *)
(* in exactly these cases, tested in this order: vaultId absent or empty   *)
(* (the error contains "vaultId is required"); else vaultUrl absent or     *)
(* empty ("vaultUrl is required"); else no cluster id can be extracted     *)
(* from vaultUrl ("Invalid vaultUrl format").                              *)
(***************************************************************************)
Absent(v) == v = Undefined \/ v = Str("")

C16_InvalidConfigCases ==
  \A c \in DOMAIN calls :
    calls[c].api = "validateVaultConfig" =>
      \A r \in Returned(calls[c]) :
        LET params == calls[c].input
            expected == IF Absent(params.vaultId) THEN "vaultId is required"
                        ELSE IF Absent(params.vaultUrl) THEN "vaultUrl is required"
                        ELSE IF extractClusterId(params.vaultUrl.str) = Null
                        THEN "Invalid vaultUrl format"
                        ELSE ""
        IN /\ r.isValid = FALSE <=> expected # ""
           /\ r.isValid = FALSE =>
                /\ "config" \notin DOMAIN r
                /\ "error" \in DOMAIN r
                /\ Includes(r.error, expected)
                /\ \A other \in {"vaultId is required", "vaultUrl is required",
                                 "Invalid vaultUrl format"} \ {expected} :
                     ~Includes(r.error, other)

\* Both vaultId and vaultUrl are absent, and it is vaultId that is reported
C16_Witness ==
  \E c \in DOMAIN calls :
    /\ calls[c].api = "validateVaultConfig"
    /\ calls[c].input.vaultId = Str("")
    /\ calls[c].input.vaultUrl = Undefined
    /\ calls[c].pc = "done"
    /\ calls[c].outcome = Fulfilled([isValid |-> FALSE, error |-> "vaultId is required"])

(***************************************************************************)
(* C17: validateVaultConfig returns isValid true if and only if vaultId    *)
(* and vaultUrl are both non-empty and extractClusterId(vaultUrl) finds a  *)
(* cluster id; then config.vaultId, vaultUrl, accountId and workspaceId    *)
(* are the inputs verbatim (accountId and workspaceId being fields of      *)
(* config even when undefined), config.clusterId is                        *)
(* extractClusterId(vaultUrl), and there is no error field.                *)
(***************************************************************************)
C17_ValidConfigEchoed ==
  \A c \in DOMAIN calls :
    calls[c].api = "validateVaultConfig" =>
      \A r \in Returned(calls[c]) :
        LET params == calls[c].input IN
        /\ r.isValid = TRUE <=>
             /\ ~Absent(params.vaultId)
             /\ ~Absent(params.vaultUrl)
             /\ extractClusterId(params.vaultUrl.str) # Null
        /\ r.isValid = TRUE =>
             /\ DOMAIN r = {"isValid", "config"}
             /\ DOMAIN r.config =
                  {"vaultId", "vaultUrl", "clusterId", "accountId", "workspaceId"}
             /\ \A f \in {"vaultId", "vaultUrl", "accountId", "workspaceId"} :
                  r.config[f] = params[f]
             /\ r.config.clusterId = extractClusterId(params.vaultUrl.str)

\* A valid config with neither accountId nor workspaceId: both are fields
\* of the config returned, holding undefined
C17_Witness ==
  \E c \in DOMAIN calls :
    /\ calls[c].api = "validateVaultConfig"
    /\ calls[c].pc = "done"
    /\ calls[c].outcome =
         Fulfilled([isValid |-> TRUE,
                    config |-> [vaultId |-> Str("vault-123"),
                                vaultUrl |-> Str("https://abc123.vault.skyflowapis.com"),
                                clusterId |-> Str("abc123"),
                                accountId |-> Undefined,
                                workspaceId |-> Undefined]])

(***************************************************************************)
(* C18: whenever validateVaultConfig returns isValid true, clusterId is a  *)
(* non-empty host label: the run of characters immediately before the      *)
(* literal ".vault" of vaultUrl, a leading http:// or https:// stripped,   *)
(* so that it holds no "." and no part of the scheme; a vaultUrl with no   *)
(* such label before ".vault" is rejected as a format violation.           *)
(***************************************************************************)
\* vaultUrl without its leading scheme
WithoutScheme(vaultUrl) ==
  IF StartsWithAt(vaultUrl, 1, "https://") THEN SubSeq(vaultUrl, 9, Len(vaultUrl))
  ELSE IF StartsWithAt(vaultUrl, 1, "http://") THEN SubSeq(vaultUrl, 8, Len(vaultUrl))
  ELSE vaultUrl

\* The label that stands immediately before the first ".vault" that has one
HostLabel(vaultUrl) ==
  LET host == WithoutScheme(vaultUrl)
      ends == {k \in 2..Len(host) : /\ StartsWithAt(host, k, ".vault")
                                    /\ SubSeq(host, k - 1, k - 1) # "."}
  IN IF ends = {} THEN NoMatch
     ELSE LET k == CHOOSE e \in ends : \A f \in ends : e <= f
              starts == {j \in 1..(k - 1) : ~Includes(SubSeq(host, j, k - 1), ".")}
          IN [found |-> TRUE,
              group |-> SubSeq(host, CHOOSE j \in starts : \A i \in starts : j <= i, k - 1)]

C18_ClusterIdIsHostLabel ==
  \A c \in DOMAIN calls :
    calls[c].api = "validateVaultConfig" =>
      \A r \in Returned(calls[c]) :
        LET params == calls[c].input IN
        /\ r.isValid =>
             /\ r.config.clusterId.t = "string"
             /\ r.config.clusterId.str # ""
             /\ ~Includes(r.config.clusterId.str, ".")
             /\ ~Includes(r.config.clusterId.str, "://")
             /\ HostLabel(params.vaultUrl.str).found
             /\ r.config.clusterId.str = HostLabel(params.vaultUrl.str).group
        /\ (/\ ~Absent(params.vaultId)
            /\ ~Absent(params.vaultUrl)
            /\ ~HostLabel(params.vaultUrl.str).found) =>
             /\ ~r.isValid
             /\ Includes(r.error, "Invalid vaultUrl format")

C20_IsValidEntityIsMembership ==
  /\ {ENTITY_TYPES[i] : i \in 1..Len(ENTITY_TYPES)} = DOMAIN ENTITY_MAP
  /\ \A c \in DOMAIN calls :
       calls[c].api = "isValidEntity" =>
         \A r \in Returned(calls[c]) :
           r = Bool(\E i \in 1..Len(ENTITY_TYPES) : ENTITY_TYPES[i] = calls[c].input)

(***************************************************************************)
(* SpecClient: a client is constructed, by its constructor or by           *)
(* createFromEnv, and one call is made on it: client.deidentify,           *)
(* client.reidentify, or one of the envelopes.                             *)
(***************************************************************************)
\* config.options of the client: none, defaults of both kinds, a default
\* entity list that names an unknown tag
ClientOptionChoices ==
  {Undefined,
   [defaultTokenType |-> Str("ENTITY_UNIQUE_COUNTER"), defaultEntities |-> Arr(<<"name">>)],
   [defaultEntities |-> Arr(<<"name", "nope">>)]}

SkyflowMCPConfig(vaultId, vaultUrl, options) ==
  [vaultId |-> vaultId, vaultUrl |-> vaultUrl,
   credentials |-> Obj([token |-> Str("bearer-token")]),
   accountId |-> Undefined, workspaceId |-> Undefined, options |-> options]

SkyflowMCPConfigs ==
  {SkyflowMCPConfig(Str("vault-123"), Str("https://abc123.vault.skyflowapis.com"), o) :
     o \in ClientOptionChoices}
  \cup {SkyflowMCPConfig(Undefined, Str("https://abc123.vault.skyflowapis.com"), Undefined),
        SkyflowMCPConfig(Str("vault-123"), Str(""), Undefined),
        SkyflowMCPConfig(Str("vault-123"), Str("https://invalid.com"), Undefined)}

\* process.env
Env(vaultId, vaultUrl, bearerToken, apiKey) ==
  [SKYFLOW_VAULT_ID |-> vaultId, SKYFLOW_VAULT_URL |-> vaultUrl,
   SKYFLOW_BEARER_TOKEN |-> bearerToken, SKYFLOW_API_KEY |-> apiKey,
   SKYFLOW_ACCOUNT_ID |-> Undefined, SKYFLOW_WORKSPACE_ID |-> Str("ws-1")]

Envs ==
  LET id == Str("vault-123")
      url == Str("https://abc123.vault.skyflowapis.com")
  IN {Env(id, url, Str("env-token"), Str("env-key")),
      Env(id, url, Undefined, Str("env-key")),
      Env(id, url, Undefined, Str("")),
      Env(Undefined, url, Str("env-token"), Undefined),
      Env(id, Undefined, Str("env-token"), Undefined),
      Env(id, Str("https://invalid.com"), Str("env-token"), Undefined)}

\* The overrides of createFromEnv: none, or some
OverridesChoices ==
  {Undefined,
   [vaultId |-> Str("vault-override"),
    credentials |-> Obj([apiKey |-> Str("override-key")]),
    accountId |-> Str("acc-1"),
    options |-> [defaultTokenType |-> Str("ENTITY_UNIQUE_COUNTER"),
                 defaultEntities |-> Arr(<<"name">>)]]}

Constructions ==
  {NewCall("new SkyflowMCP", config, Undefined) : config \in SkyflowMCPConfigs}
  \cup {NewCall("createFromEnv", [overrides |-> o, env |-> e], Undefined) :
          o \in OverridesChoices, e \in Envs}

\* The options of a call: a token type or none; no entity list, an empty
\* one, known tags, an unknown tag, a name every object inherits
CallOptionChoices ==
  [tokenType : {Undefined, Str("ENTITY_ONLY")},
   entities : {Undefined, Arr(<<>>), Arr(<<"email_address", "ssn">>),
               Arr(<<"ssn", "bogus">>), Arr(<<"toString">>)}]

ClientCalls ==
  {NewCall(api, i, Options(d, Undefined, Undefined, Undefined, Undefined)) :
     api \in {"deidentify", "wrap", "wrapWithProtection"},
     i \in Inputs, d \in CallOptionChoices}
  \cup {NewCall("reidentify", Tokenize(i), Undefined) : i \in Inputs}

\* The construction and the call made on the client constructed
TwoCalls == {1, 2}

InitClient ==
  /\ client = NoClient
  /\ calls \in {<<made, call>> : made \in Constructions, call \in ClientCalls}

NextClient ==
  \E c \in TwoCalls :
    \/ Construct(c)
    \/ CreateFromEnv(c)
    \/ InvokeOnClient(c)
    \/ DeidentifyTextSettles(c, FALSE)
    \/ ResumeAfterDeidentify(c)
    \/ OperationSettles(c, FALSE)
    \/ ReidentifyTextSettles(c, FALSE)
    \/ ResumeAfterReidentify(c)

SpecClient == InitClient /\ [][NextClient]_vars

\* The calls that reach client.deidentify, once they are invoked
ReachesDeidentify(call) ==
  /\ call.api \in {"deidentify", "wrap", "wrapWithProtection"}
  /\ call.pc # "called"

\* The entity list in effect as the cascade states it: the list of the call
\* if one is supplied, else the default list of the client if one is set,
\* else none
ListInEffect(config, options) ==
  LET own == OptionalChain(options, "entities")
      default == OptionalChain(config.options, "defaultEntities")
  IN IF own # Undefined THEN own.items
     ELSE IF default # Undefined THEN default.items
     ELSE <<>>

Vocabulary == {ENTITY_TYPES[i] : i \in 1..Len(ENTITY_TYPES)}

\* The tags of a list that are outside the vocabulary
UnknownTags(list) == {list[i] : i \in 1..Len(list)} \ Vocabulary

(***************************************************************************)
(* C12: when the entity list in effect for client.deidentify (the list of  *)
(* the call, or the default list of the client) holds a tag outside the    *)
(* vocabulary, the call fails with an error whose message includes the     *)
(* offending tag, and the vault's deidentifyText is never called.          *)
(***************************************************************************)
C12_UnknownTagRejectedBeforeCall ==
  \A c \in DOMAIN calls :
    (/\ ReachesDeidentify(calls[c])
     /\ UnknownTags(ListInEffect(client.config, calls[c].options)) # {}) =>
      /\ Count(calls[c], "deidentifyText.call") = 0
      /\ calls[c].deidentified.state = "rejected"
      /\ \E tag \in UnknownTags(ListInEffect(client.config, calls[c].options)) :
           Includes(calls[c].deidentified.reason.message, tag)

\* The message of a thrown value: undefined when it has none
MessageOf(thrown) ==
  IF "message" \in DOMAIN thrown THEN Str(thrown.message) ELSE Undefined

(***************************************************************************)
(* C13: whenever the vault's deidentifyText fails, client.deidentify       *)
(* rejects with a DeidentifyError whose message is the message of the      *)
(* original failure and whose cause is the original failure; likewise      *)
(* client.reidentify with a ReidentifyError.  The failure is never         *)
(* swallowed (the call never resolves) and the vault is not asked again.   *)
(***************************************************************************)
C13_FailurePreserved ==
  \A c \in DOMAIN calls :
    /\ Happened(calls[c], "deidentifyText.fail") =>
         LET failure == ArgOf(calls[c], "deidentifyText.fail") IN
         /\ IsClass(calls[c].deidentified, "DeidentifyError")
         /\ Str(calls[c].deidentified.reason.message) = MessageOf(failure)
         /\ calls[c].deidentified.reason.cause = failure
         /\ Count(calls[c], "deidentifyText.call") = 1
         /\ calls[c].outcome.state # "fulfilled"
    /\ Happened(calls[c], "reidentifyText.fail") =>
         LET failure == ArgOf(calls[c], "reidentifyText.fail") IN
         /\ IsClass(calls[c].reidentified, "ReidentifyError")
         /\ Str(calls[c].reidentified.reason.message) = MessageOf(failure)
         /\ calls[c].reidentified.reason.cause = failure
         /\ Count(calls[c], "reidentifyText.call") = 1
         /\ calls[c].outcome.state # "fulfilled"

(***************************************************************************)
(* C14: every rejection of client.deidentify, whatever its cause (a        *)
(* structured service error, another thrown value, an invalid option), is  *)
(* a DeidentifyError with code "DEIDENTIFY_ERROR"; every rejection of      *)
(* client.reidentify is a ReidentifyError with code "REIDENTIFY_ERROR";    *)
(* every failure of the constructor or of createFromEnv is a               *)
(* ConfigurationError with code "CONFIGURATION_ERROR".                     *)
(***************************************************************************)
C14_ErrorClassesAndCodes ==
  \A c \in DOMAIN calls :
    /\ calls[c].deidentified.state = "rejected" =>
         /\ IsClass(calls[c].deidentified, "DeidentifyError")
         /\ calls[c].deidentified.reason.code = "DEIDENTIFY_ERROR"
    /\ calls[c].reidentified.state = "rejected" =>
         /\ IsClass(calls[c].reidentified, "ReidentifyError")
         /\ calls[c].reidentified.reason.code = "REIDENTIFY_ERROR"
    /\ (calls[c].api = "deidentify" /\ calls[c].outcome.state = "rejected") =>
         /\ IsClass(calls[c].outcome, "DeidentifyError")
         /\ calls[c].outcome.reason.code = "DEIDENTIFY_ERROR"
    /\ (calls[c].api = "reidentify" /\ calls[c].outcome.state = "rejected") =>
         /\ IsClass(calls[c].outcome, "ReidentifyError")
         /\ calls[c].outcome.reason.code = "REIDENTIFY_ERROR"
    /\ (/\ calls[c].api \in {"new SkyflowMCP", "createFromEnv"}
        /\ calls[c].outcome.state = "rejected") =>
         /\ IsClass(calls[c].outcome, "ConfigurationError")
         /\ calls[c].outcome.reason.code = "CONFIGURATION_ERROR"
         /\ client = NoClient

\* client.deidentify, called on a client made by createFromEnv, has rejected
\* for a thrown value that is no Error
C14_Witness ==
  /\ calls[1].api = "createFromEnv"
  /\ calls[1].outcome.state = "fulfilled"
  /\ calls[2].api = "deidentify"
  /\ calls[2].pc = "done"
  /\ Happened(calls[2], "deidentifyText.fail")
  /\ ArgOf(calls[2], "deidentifyText.fail") = Str("timeout")
  /\ calls[2].outcome.state = "rejected"
  /\ calls[2].outcome.reason.code = "DEIDENTIFY_ERROR"

(***************************************************************************)
(* C15: the options sent to the vault's deidentifyText follow the cascade  *)
(* value of the call > default of the client > default of the system: the  *)
(* token type is options.tokenType if supplied, else                       *)
(* config.options.defaultTokenType if set, else VAULT_TOKEN; the entity    *)
(* filter is made of options.entities if supplied, else of                 *)
(* config.options.defaultEntities if set, else there is no filter; and so  *)
(* whether deidentify is reached directly, through client.wrap or through  *)
(* wrapWithProtection.                                                     *)
(***************************************************************************)
TokenTypeInEffect(config, options) ==
  LET own == OptionalChain(options, "tokenType")
      default == OptionalChain(config.options, "defaultTokenType")
  IN IF own # Undefined THEN own.str
     ELSE IF default # Undefined THEN default.str
     ELSE "VAULT_TOKEN"

\* The tags the request asks the vault to filter by: none when it has no filter
FilterOf(request) ==
  IF request.entities = Undefined THEN <<>> ELSE request.entities.items

C15_OptionCascade ==
  \A c \in DOMAIN calls :
    (ReachesDeidentify(calls[c]) /\ Happened(calls[c], "deidentifyText.call")) =>
      LET request == ArgOf(calls[c], "deidentifyText.call")
          list == ListInEffect(client.config, calls[c].options)
      IN /\ request.text = calls[c].input
         /\ request.tokenFormat =
              Enum(TokenTypeInEffect(client.config, calls[c].options))
         /\ UnknownTags(list) = {} =>
              FilterOf(request) = [i \in 1..Len(list) |-> Enum(ENTITY_MAP[list[i]])]

\* Through wrapWithProtection, on a client with defaults of both kinds, the
\* token type and the entity list of the call have been sent
C15_Witness ==
  /\ client # NoClient
  /\ OptionalChain(client.config.options, "defaultTokenType") = Str("ENTITY_UNIQUE_COUNTER")
  /\ OptionalChain(client.config.options, "defaultEntities") = Arr(<<"name">>)
  /\ calls[2].api = "wrapWithProtection"
  /\ calls[2].options.tokenType = Str("ENTITY_ONLY")
  /\ calls[2].options.entities = Arr(<<"email_address", "ssn">>)
  /\ Happened(calls[2], "deidentifyText.call")
  /\ ArgOf(calls[2], "deidentifyText.call").tokenFormat = Enum("ENTITY_ONLY")
  /\ ArgOf(calls[2], "deidentifyText.call").entities =
       Arr(<<Enum("EMAIL_ADDRESS"), Enum("SSN")>>)

(***************************************************************************)
(* C21: getEntityEnum(name) returns the mapped enum value for every name   *)
(* of the vocabulary and, for every name outside it, throws an error whose *)
(* message is "Invalid entity type: <name>"; it never returns a value for  *)
(* a name outside the vocabulary.                                          *)
(***************************************************************************)
C21_GetEntityEnumGuardsVocabulary ==
  \A c \in DOMAIN calls :
    (calls[c].api = "getEntityEnum" /\ calls[c].pc = "done") =>
      IF calls[c].input \in Vocabulary
      THEN /\ calls[c].outcome = Fulfilled(Enum(ENTITY_MAP[calls[c].input]))
           /\ Places(calls[c], "return") = 1..Len(calls[c].trace)
      ELSE /\ calls[c].outcome =
                Rejected(ErrorObj("Invalid entity type: " \o calls[c].input))
           /\ Includes(calls[c].outcome.reason.message, calls[c].input)
           /\ Places(calls[c], "throw") = 1..Len(calls[c].trace)

(***************************************************************************)
(* SpecSetup: the construction of a client alone, over more                *)
(* configurations, environments and overrides.                             *)
(***************************************************************************)
SetupVaultIds == {Undefined, Str(""), Str("vault-123")}

SetupVaultUrls ==
  {Undefined, Str(""), Str("https://abc123.vault.skyflowapis.com"),
   Str("https://invalid.com"), Str("https://.vault.skyflowapis.com")}

SetupEnvs ==
  {Env(id, url, bearer, key) :
     id \in {Undefined, Str("env-vault-id")},
     url \in {Undefined, Str("https://envcluster.vault.skyflowapis.com"),
              Str("https://invalid.com")},
     bearer \in {Undefined, Str(""), Str("env-bearer-token")},
     key \in {Undefined, Str("env-api-key")}}

SetupOverrides ==
  {Undefined,
   [vaultId |-> Str("override-vault-id")],
   [vaultId |-> Str(""), vaultUrl |-> Str("https://override.vault.skyflowapis.com"),
    credentials |-> Obj([apiKey |-> Str("override-key")])],
   [credentials |-> Obj([token |-> Str("override-token")]), workspaceId |-> Str("ws-2")]}

SetupCalls ==
  {NewCall("new SkyflowMCP", SkyflowMCPConfig(id, url, Undefined), Undefined) :
     id \in SetupVaultIds, url \in SetupVaultUrls}
  \cup {NewCall("createFromEnv", [overrides |-> o, env |-> e], Undefined) :
          o \in SetupOverrides, e \in SetupEnvs}

InitSetup ==
  /\ client = NoClient
  /\ calls \in [OneCall -> SetupCalls]

NextSetup ==
  \E c \in OneCall :
    \/ Construct(c)
    \/ CreateFromEnv(c)

SpecSetup == InitSetup /\ [][NextSetup]_vars

\* The override when one is given, else the environment's value
OverrideOr(overrides, name, fromEnv) ==
  IF Absent(OptionalChain(overrides, name)) THEN fromEnv
  ELSE OptionalChain(overrides, name)

(***************************************************************************)
(* C22: createFromEnv resolves each setting by precedence: an explicit     *)
(* override wins over the environment variable for vaultId, vaultUrl and   *)
(* credentials; among the environment's credentials SKYFLOW_BEARER_TOKEN   *)
(* wins over SKYFLOW_API_KEY, so that with both set the client is built    *)
(* with {token: bearer} and the API key is not used.                       *)
(***************************************************************************)
C22_CreateFromEnvPrecedence ==
  \A c \in DOMAIN calls :
    (calls[c].api = "createFromEnv" /\ calls[c].outcome.state = "fulfilled") =>
      LET overrides == calls[c].input.overrides
          env == calls[c].input.env
          made == calls[c].outcome.value
          given == OptionalChain(overrides, "credentials")
          credentials == IF given # Undefined THEN given
                         ELSE IF ~Absent(env.SKYFLOW_BEARER_TOKEN)
                         THEN Obj([token |-> env.SKYFLOW_BEARER_TOKEN])
                         ELSE Obj([apiKey |-> env.SKYFLOW_API_KEY])
      IN /\ made = client
         /\ made.config.vaultId = OverrideOr(overrides, "vaultId", env.SKYFLOW_VAULT_ID)
         /\ made.vaultId = made.config.vaultId
         /\ made.config.vaultUrl = OverrideOr(overrides, "vaultUrl", env.SKYFLOW_VAULT_URL)
         /\ made.config.credentials = credentials
         /\ made.skyflow.vaultConfigs[1].credentials = credentials

\* Both credentials in the environment and none overridden: the client has
\* the bearer token, and no API key
C22_Witness ==
  \E c \in DOMAIN calls :
    /\ calls[c].api = "createFromEnv"
    /\ calls[c].input.overrides = Undefined
    /\ calls[c].input.env.SKYFLOW_API_KEY = Str("env-api-key")
    /\ calls[c].input.env.SKYFLOW_BEARER_TOKEN = Str("env-bearer-token")
    /\ calls[c].outcome.state = "fulfilled"
    /\ client.config.credentials = Obj([token |-> Str("env-bearer-token")])

(***************************************************************************)
(* C23: the construction of a client fails with a ConfigurationError, and  *)
(* no client is returned, whenever the vault id is missing or empty, the   *)
(* vault url is missing, empty or malformed, or (in createFromEnv, with no *)
(* credentials overridden) both SKYFLOW_BEARER_TOKEN and SKYFLOW_API_KEY   *)
(* are missing; the three missing-value cases of createFromEnv carry three *)
(* distinct messages, tested in the order vault id, vault url,             *)
(* credentials.                                                            *)
(***************************************************************************)
\* A vault url that has no label immediately before ".vault"
Malformed(vaultUrl) == ~HostLabel(vaultUrl.str).found

C23_ConstructionFails ==
  \A c \in DOMAIN calls :
    (calls[c].api \in {"new SkyflowMCP", "createFromEnv"} /\ calls[c].pc = "done") =>
      LET fromEnv == calls[c].api = "createFromEnv"
          overrides == IF fromEnv THEN calls[c].input.overrides ELSE Undefined
          vaultId == IF fromEnv
                     THEN OverrideOr(overrides, "vaultId", calls[c].input.env.SKYFLOW_VAULT_ID)
                     ELSE calls[c].input.vaultId
          vaultUrl == IF fromEnv
                      THEN OverrideOr(overrides, "vaultUrl", calls[c].input.env.SKYFLOW_VAULT_URL)
                      ELSE calls[c].input.vaultUrl
          noCredentials == /\ fromEnv
                           /\ OptionalChain(overrides, "credentials") = Undefined
                           /\ Absent(calls[c].input.env.SKYFLOW_BEARER_TOKEN)
                           /\ Absent(calls[c].input.env.SKYFLOW_API_KEY)
          failed == /\ IsClass(calls[c].outcome, "ConfigurationError")
                    /\ client = NoClient
      IN /\ (Absent(vaultId) \/ Absent(vaultUrl) \/ noCredentials) => failed
         /\ (~Absent(vaultUrl) /\ Malformed(vaultUrl)) => failed
         /\ (fromEnv /\ Absent(vaultId)) =>
              calls[c].outcome.reason.message =
                "SKYFLOW_VAULT_ID environment variable is required"
         /\ (fromEnv /\ ~Absent(vaultId) /\ Absent(vaultUrl)) =>
              calls[c].outcome.reason.message =
                "SKYFLOW_VAULT_URL environment variable is required"
         /\ (fromEnv /\ ~Absent(vaultId) /\ ~Absent(vaultUrl) /\ noCredentials) =>
              calls[c].outcome.reason.message =
                "Either SKYFLOW_BEARER_TOKEN or SKYFLOW_API_KEY "
                \o "environment variable is required"

(***************************************************************************)
(* SpecTools: the MCP tools.  registerSkyflowTools registers them on a     *)
(* server, which then calls the handler of a tool it has registered.       *)
(***************************************************************************)
Digit(n) == SubSeq("0123456789", n + 1, n + 1)

\* String(n) of a non-negative integer
RECURSIVE ToDecimal(_)
ToDecimal(n) == IF n < 10 THEN Digit(n) ELSE ToDecimal(n \div 10) \o Digit(n % 10)

\* JSON.stringify of a string's characters: quotes and backslashes are escaped
RECURSIVE JSONEscape(_)
JSONEscape(text) ==
  IF text = "" THEN ""
  ELSE LET ch == SubSeq(text, 1, 1)
       IN (IF ch = "\"" THEN "\\\"" ELSE IF ch = "\\" THEN "\\\\" ELSE ch)
          \o JSONEscape(SubSeq(text, 2, Len(text)))

\* JSON.stringify of a string, number, boolean or null
JSONStringifyValue(v) ==
  CASE v.t = "string" -> "\"" \o JSONEscape(v.str) \o "\""
    [] v.t = "number" -> ToDecimal(v.num)
    [] v.t = "boolean" -> IF v.bool THEN "true" ELSE "false"
    [] OTHER -> "null"

RECURSIVE JSONMembers(_, _)
JSONMembers(keys, fields) ==
  IF keys = <<>> THEN <<>>
  ELSE IF fields[Head(keys)].t \in {"undefined", "function"}
  THEN JSONMembers(Tail(keys), fields)
  ELSE <<"\"" \o JSONEscape(Head(keys)) \o "\":" \o JSONStringifyValue(fields[Head(keys)])>>
       \o JSONMembers(Tail(keys), fields)

RECURSIVE JoinWithCommas(_)
JoinWithCommas(members) ==
  IF members = <<>> THEN ""
  ELSE IF Len(members) = 1 THEN Head(members)
  ELSE Head(members) \o "," \o JoinWithCommas(Tail(members))

\* JSON.stringify(output) of an object literal whose keys were written in the
\* order `keys`: a key whose value is undefined is left out
JSONStringify(keys, fields) == "{" \o JoinWithCommas(JSONMembers(keys, fields)) \o "}"

\* { content: [{ type: "text", text: JSON.stringify(output) }], structuredContent: output }
ToolResult(keys, output) ==
  [content |-> Arr(<<Obj([type |-> Str("text"),
                          text |-> Str(JSONStringify(keys, output))])>>),
   structuredContent |-> Obj(output)]

\* The deidentify tool's output with the entities themselves for their number
deidentifyToolOutputListingEntities(result) ==
  [processedText |-> Get(result, "processedText"),
   wordCount |-> Get(result, "wordCount"),
   charCount |-> Get(result, "charCount"),
   entitiesFound |-> Get(result, "entities")]

\* The deidentify tool's output: result.entities?.length
deidentifyToolOutput(result) ==
  [processedText |-> Get(result, "processedText"),
   wordCount |-> Get(result, "wordCount"),
   charCount |-> Get(result, "charCount"),
   entitiesFound |-> IF Get(result, "entities") \in {Undefined, Null}
                     THEN Undefined
                     ELSE Num(Len(Get(result, "entities").items))]

reidentifyToolOutput(result) == [processedText |-> Get(result, "processedText")]

\* The deidentify tool's handler up to its await: client.deidentify is called
deidentifyToolHandler(config, call) ==
  LET options == [tokenType |-> Get(call.input, "tokenType"),
                  entities |-> Get(call.input, "entities")]
      text == Get(call.input, "inputString")
      called == [call EXCEPT !.trace = Append(@, Ev("client.deidentify",
                                                    [text |-> text, options |-> options]))]
      r == deidentifyRequest(config, text, options)
  IN IF r.threw
     THEN [called EXCEPT !.pc = "awaitDeidentify", !.deidentified = Rejected(r.error)]
     ELSE [called EXCEPT !.pc = "deidentifyText", !.request = r.request,
                         !.trace = Append(@, Ev("deidentifyText.call", r.request))]

\* The deidentify tool's handler after its await
deidentifyToolHandlerAfterDeidentify(call) ==
  IF call.deidentified.state = "rejected"
  THEN Throw(call, call.deidentified.reason)
  ELSE Return(call, ToolResult(<<"processedText", "wordCount", "charCount", "entitiesFound">>,
                               deidentifyToolOutput(call.deidentified.value)))

\* The reidentify tool's handler up to its await: client.reidentify is called
reidentifyToolHandler(call) ==
  LET text == Get(call.input, "inputString")
      called == [call EXCEPT !.trace = Append(@, Ev("client.reidentify", [text |-> text]))]
  IN CallReidentify(called, Str(text), "direct")

\* The reidentify tool's handler after its await
reidentifyToolHandlerAfterReidentify(call) ==
  IF call.reidentified.state = "rejected"
  THEN Throw(call, call.reidentified.reason)
  ELSE Return(call, ToolResult(<<"processedText">>,
                               reidentifyToolOutput(call.reidentified.value)))

\* createDeidentifyTool(client, namePrefix): the definition handed to the server
createDeidentifyTool(namePrefix) ==
  [name |-> namePrefix \o "deidentify", title |-> "Skyflow Deidentify Tool",
   handler |-> "deidentifyTool"]

\* createReidentifyTool leaving the prefix out of the name
createReidentifyToolUnprefixed(namePrefix) ==
  [name |-> "reidentify", title |-> "Skyflow Reidentify Tool",
   handler |-> "reidentifyTool"]

\* createReidentifyTool(client, namePrefix)
createReidentifyTool(namePrefix) ==
  [name |-> namePrefix \o "reidentify", title |-> "Skyflow Reidentify Tool",
   handler |-> "reidentifyTool"]

\* const { name = fallback } = options
Destructured(options, name, fallback) ==
  IF OptionalChain(options, name) = Undefined THEN fallback ELSE Get(options, name)

\* options = {} when the argument is left out
RegisterToolsOptionsOrDefault(options) == IF options = Undefined THEN <<>> ELSE options

includeDeidentify(call) ==
  Truthy(Destructured(RegisterToolsOptionsOrDefault(call.options),
                      "includeDeidentify", Bool(TRUE)))

includeReidentify(call) ==
  Truthy(Destructured(RegisterToolsOptionsOrDefault(call.options),
                      "includeReidentify", Bool(TRUE)))

toolNamePrefix(call) ==
  Destructured(RegisterToolsOptionsOrDefault(call.options), "toolNamePrefix", Str("")).str

\* getZod(): the import of zod succeeds or fails, and once it has succeeded
\* the module is kept
ZodAnswers(call) ==
  IF Happened(call, "import.ok")
  THEN {Ok(Undefined)}
  ELSE {Ok(Undefined),
        Fail(ErrorObj("zod is required for MCP tool schemas. "
                      \o "Install it with: npm install zod"))}

\* server.registerTool(name, definition, handler): the server takes the tool,
\* or throws
RegisterToolAnswers == {Ok(Undefined), Fail(ErrorObj("Tool is already registered"))}

\* registerSkyflowTools after the client: the next tool to create, if any
registerSkyflowToolsNext(call, from) ==
  IF from = "start" /\ includeDeidentify(call)
  THEN [call EXCEPT !.pc = "createDeidentifyTool"]
  ELSE IF includeReidentify(call)
  THEN [call EXCEPT !.pc = "createReidentifyTool"]
  ELSE Return(call, Undefined)

\* await createXTool(client, toolNamePrefix); server.registerTool(...)
registerSkyflowToolsRegister(call, tool, zod, registered) ==
  IF ~zod.ok
  THEN Throw([call EXCEPT !.trace = Append(@, Ev("import.fail", zod.error))], zod.error)
  ELSE LET imported == IF Happened(call, "import.ok") THEN call
                       ELSE [call EXCEPT !.trace = Append(@, Ev("import.ok", Undefined))]
           asked == [imported EXCEPT !.trace = Append(@, Ev("registerTool.call", tool))]
       IN IF ~registered.ok
          THEN Throw([asked EXCEPT !.trace = Append(@, Ev("registerTool.fail",
                                                         registered.error))],
                     registered.error)
          ELSE [asked EXCEPT !.trace = Append(@, Ev("registerTool.ok", tool))]

\* registerSkyflowTools(server, clientOrConfig, options) up to its first await
RegisterSkyflowTools(c) ==
  /\ calls[c].pc = "called"
  /\ calls[c].api = "registerSkyflowTools"
  /\ IF "stage" \in DOMAIN calls[c].input
     THEN /\ calls' = [calls EXCEPT ![c] = registerSkyflowToolsNext(calls[c], "start")]
          /\ client' = calls[c].input
     ELSE \E skyflow \in SkyflowAnswers :
            LET made == SkyflowMCP(calls[c].input, skyflow) IN
            IF made.threw
            THEN Step(c, Throw(calls[c], made.error))
            ELSE /\ calls' = [calls EXCEPT
                                ![c] = registerSkyflowToolsNext(calls[c], "start")]
                 /\ client' = made.value

\* The deidentify tool is created and registered
DeidentifyToolCreated(c) ==
  /\ calls[c].pc = "createDeidentifyTool"
  /\ \E zod \in ZodAnswers(calls[c]), registered \in RegisterToolAnswers :
       LET next == registerSkyflowToolsRegister(
                     calls[c], createDeidentifyTool(toolNamePrefix(calls[c])),
                     zod, registered)
       IN Step(c, IF next.pc = "done" THEN next
                  ELSE registerSkyflowToolsNext(next, "deidentify"))

\* The reidentify tool is created and registered
ReidentifyToolCreated(c) ==
  /\ calls[c].pc = "createReidentifyTool"
  /\ \E zod \in ZodAnswers(calls[c]), registered \in RegisterToolAnswers :
       LET next == registerSkyflowToolsRegister(
                     calls[c], createReidentifyTool(toolNamePrefix(calls[c])),
                     zod, registered)
       IN Step(c, IF next.pc = "done" THEN next ELSE Return(next, Undefined))

\* The tools the server holds
RegisteredTools ==
  UNION {{calls[c].trace[i].arg : i \in Places(calls[c], "registerTool.ok")} :
           c \in {d \in DOMAIN calls : calls[d].api = "registerSkyflowTools"}}

\* The server calls the handler of a tool registered under the name asked for
CallTool(c) ==
  /\ calls[c].pc = "called"
  /\ calls[c].api = "callTool"
  /\ \E tool \in RegisteredTools :
       /\ tool.name = calls[c].options.name
       /\ Step(c, IF tool.handler = "deidentifyTool"
                  THEN deidentifyToolHandler(client.config, calls[c])
                  ELSE reidentifyToolHandler(calls[c]))

\* deidentifyText answers the tool's call: also with no entity found, and two
ToolDeidentifyTextSettles(c) ==
  /\ calls[c].pc = "deidentifyText"
  /\ \E answer \in DeidentifyTextAnswers(calls[c].request)
                   \cup {Ok([processedText |-> Str(calls[c].request.text),
                             entities |-> Arr(<<>>), wordCount |-> Num(0)]),
                         Ok([processedText |-> Str(Tokenize(calls[c].request.text)),
                             entities |-> Arr(<<Obj([token |-> Str("[A]")]),
                                                Obj([token |-> Str("[B]")])>>),
                             charCount |-> Num(120)])} :
       Step(c, SettleDeidentify(calls[c], answer))

\* The tool's handler resumes after client.deidentify
ToolResumeAfterDeidentify(c) ==
  /\ calls[c].pc = "awaitDeidentify"
  /\ Step(c, deidentifyToolHandlerAfterDeidentify(calls[c]))

\* The tool's handler resumes after client.reidentify
ToolResumeAfterReidentify(c) ==
  /\ calls[c].pc = "awaitReidentify"
  /\ Step(c, reidentifyToolHandlerAfterReidentify(calls[c]))

RegisterToolsOptionChoices ==
  {Undefined, <<>>}
  \cup {[includeDeidentify |-> d, includeReidentify |-> r, toolNamePrefix |-> p] :
          d \in {Undefined, Bool(TRUE), Bool(FALSE)},
          r \in {Undefined, Bool(TRUE), Bool(FALSE)},
          p \in {Undefined, Str("skyflow_")}}

\* A client constructed beforehand, a configuration, an invalid configuration
ClientOrConfigChoices ==
  {SkyflowMCP(SkyflowMCPConfig(Str("vault-123"),
                               Str("https://abc123.vault.skyflowapis.com"),
                               Undefined), Ok(Undefined)).value,
   SkyflowMCPConfig(Str("vault-123"), Str("https://abc123.vault.skyflowapis.com"),
                    [defaultTokenType |-> Str("ENTITY_ONLY"),
                     defaultEntities |-> Undefined]),
   SkyflowMCPConfig(Str("vault-123"), Str("https://invalid.com"), Undefined)}

Registrations ==
  {NewCall("registerSkyflowTools", clientOrConfig, options) :
     clientOrConfig \in ClientOrConfigChoices, options \in RegisterToolsOptionChoices}

ToolTexts == {"john@example.com", "say \"hi\" to C:\\me"}

\* tools/call of a name, with arguments
ToolCalls ==
  {NewCall("callTool", [inputString |-> text, tokenType |-> d.tokenType,
                        entities |-> d.entities], [name |-> name]) :
     text \in ToolTexts, d \in CallOptionChoices,
     name \in {"deidentify", "skyflow_deidentify"}}
  \cup {NewCall("callTool", [inputString |-> Tokenize(text)], [name |-> name]) :
          text \in ToolTexts, name \in {"reidentify", "skyflow_reidentify"}}

InitTools ==
  /\ client = NoClient
  /\ calls \in {<<registration, call>> :
                  registration \in Registrations, call \in ToolCalls}

NextTools ==
  \E c \in TwoCalls :
    \/ RegisterSkyflowTools(c)
    \/ DeidentifyToolCreated(c)
    \/ ReidentifyToolCreated(c)
    \/ CallTool(c)
    \/ ToolDeidentifyTextSettles(c)
    \/ ToolResumeAfterDeidentify(c)
    \/ ReidentifyTextSettles(c, FALSE)
    \/ ToolResumeAfterReidentify(c)

SpecTools == InitTools /\ [][NextTools]_vars

(***************************************************************************)
(* C24: the deidentify tool's handler calls client.deidentify once, with   *)
(* inputString and the tokenType and entities it was given, and returns    *)
(* {content, structuredContent} where structuredContent is {processedText, *)
(* wordCount, charCount, entitiesFound}, entitiesFound being the number of *)
(* entities of the deidentify result (absent when the result has no list   *)
(* of entities), and content is exactly one text item whose text is the    *)
(* JSON serialization of structuredContent; the reidentify tool's handler  *)
(* likewise returns structuredContent {processedText} and its JSON text.   *)
(***************************************************************************)
OneTextItem(value, keys) ==
  /\ value.content.t = "array"
  /\ Len(value.content.items) = 1
  /\ value.content.items[1] =
       Obj([type |-> Str("text"),
            text |-> Str(JSONStringify(keys, value.structuredContent.fields))])

C24_ToolHandlers ==
  \A c \in DOMAIN calls :
    (calls[c].api = "callTool" /\ calls[c].pc = "done") =>
      IF Happened(calls[c], "client.deidentify")
      THEN /\ Count(calls[c], "client.deidentify") = 1
           /\ ~Happened(calls[c], "client.reidentify")
           /\ ArgOf(calls[c], "client.deidentify") =
                [text |-> calls[c].input.inputString,
                 options |-> [tokenType |-> calls[c].input.tokenType,
                              entities |-> calls[c].input.entities]]
           /\ Count(calls[c], "deidentifyText.call") <= 1
           /\ calls[c].outcome.state = "fulfilled" =>
                LET result == calls[c].deidentified.value
                    value == calls[c].outcome.value
                    structured == value.structuredContent.fields
                IN /\ DOMAIN value = {"content", "structuredContent"}
                   /\ DOMAIN structured =
                        {"processedText", "wordCount", "charCount", "entitiesFound"}
                   /\ structured.processedText = result.processedText
                   /\ structured.wordCount = Get(result, "wordCount")
                   /\ structured.charCount = Get(result, "charCount")
                   /\ structured.entitiesFound =
                        IF "entities" \in DOMAIN result
                        THEN Num(Len(result.entities.items))
                        ELSE Undefined
                   /\ OneTextItem(value, <<"processedText", "wordCount",
                                           "charCount", "entitiesFound">>)
      ELSE /\ Count(calls[c], "client.reidentify") = 1
           /\ ArgOf(calls[c], "client.reidentify") = [text |-> calls[c].input.inputString]
           /\ Count(calls[c], "reidentifyText.call") = 1
           /\ calls[c].outcome.state = "fulfilled" =>
                LET value == calls[c].outcome.value
                IN /\ DOMAIN value = {"content", "structuredContent"}
                   /\ value.structuredContent.fields =
                        [processedText |-> calls[c].reidentified.value.processedText]
                   /\ OneTextItem(value, <<"processedText">>)

\* The deidentify tool has answered for a text in which nothing was found:
\* the text is escaped, the number of entities is 0 and charCount is left out
C24_Witness ==
  \E c \in DOMAIN calls :
    /\ calls[c].api = "callTool"
    /\ calls[c].outcome.state = "fulfilled"
    /\ Happened(calls[c], "client.deidentify")
    /\ calls[c].outcome.value.structuredContent.fields.entitiesFound = Num(0)
    /\ calls[c].outcome.value.content.items[1].fields.text.str =
         "{\"processedText\":\"say \\\"hi\\\" to C:\\\\me\",\"wordCount\":0,\"entitiesFound\":0}"

(***************************************************************************)
(* C25: registerSkyflowTools with default options registers exactly two    *)
(* tools on the server, "deidentify" then "reidentify", each once; with a  *)
(* toolNamePrefix p the names are p+"deidentify" and p+"reidentify"; a     *)
(* tool is registered if and only if its include flag is not false, so     *)
(* that with both flags false nothing is registered.                       *)
(***************************************************************************)
\* The names handed to server.registerTool, in order
NamesAsked(call) ==
  LET at == Places(call, "registerTool.call")
      nth(k) == CHOOSE i \in at : Cardinality({j \in at : j < i}) = k - 1
  IN [k \in 1..Cardinality(at) |-> call.trace[nth(k)].arg.name]

NamesExpected(options) ==
  LET p == IF OptionalChain(options, "toolNamePrefix") = Undefined THEN ""
           ELSE options.toolNamePrefix.str
  IN (IF OptionalChain(options, "includeDeidentify") # Bool(FALSE)
      THEN <<p \o "deidentify">> ELSE <<>>)
     \o (IF OptionalChain(options, "includeReidentify") # Bool(FALSE)
         THEN <<p \o "reidentify">> ELSE <<>>)

C25_ToolsRegistered ==
  \A c \in DOMAIN calls :
    calls[c].api = "registerSkyflowTools" =>
      LET asked == NamesAsked(calls[c])
          expected == NamesExpected(calls[c].options)
      IN /\ Len(asked) <= Len(expected)
         /\ asked = SubSeq(expected, 1, Len(asked))
         /\ calls[c].outcome.state = "fulfilled" =>
              /\ asked = expected
              /\ Count(calls[c], "registerTool.ok") = Len(expected)
              /\ {tool.name : tool \in RegisteredTools} = {expected[k] : k \in DOMAIN expected}

\* Registered with no options: the two tools, under their plain names
C25_Witness ==
  \E c \in DOMAIN calls :
    /\ calls[c].api = "registerSkyflowTools"
    /\ calls[c].options = Undefined
    /\ calls[c].outcome.state = "fulfilled"
    /\ NamesAsked(calls[c]) = <<"deidentify", "reidentify">>

(***************************************************************************)
(* C26: within one call of wrapWithProtection or client.wrap the three     *)
(* asynchronous steps are strictly sequential and never overlap: the       *)
(* operation starts only after the external deidentify call has completed  *)
(* successfully, the external reidentify call starts only after the        *)
(* operation has completed successfully, and the call returns only after   *)
(* the last step started has completed.                                    *)
(***************************************************************************)
StepNames == {"deidentifyText", "operation", "reidentifyText"}

\* The steps started and not yet completed after the first k events
Outstanding(call, k) ==
  {name \in StepNames :
     Cardinality({i \in Places(call, name \o ".call") : i <= k})
       > Cardinality({i \in Places(call, name \o ".ok") \cup Places(call, name \o ".fail") :
                        i <= k})}

C26_StepsSequential ==
  \A c \in DOMAIN calls :
    calls[c].api \in {"wrapWithProtection", "wrap"} =>
      /\ \A k \in 1..Len(calls[c].trace) : Cardinality(Outstanding(calls[c], k)) <= 1
      /\ \A i \in Places(calls[c], "operation.call") :
           /\ Outstanding(calls[c], i - 1) = {}
           /\ \E j \in Places(calls[c], "deidentifyText.ok") : j < i
           /\ \A j \in Places(calls[c], "deidentifyText.fail") : FALSE
      /\ \A i \in Places(calls[c], "reidentifyText.call") :
           /\ Outstanding(calls[c], i - 1) = {}
           /\ \E j \in Places(calls[c], "operation.ok") : j < i
           /\ \E j \in Places(calls[c], "deidentifyText.ok") :
                \E k \in Places(calls[c], "operation.call") : j < k /\ k < i
      /\ calls[c].pc = "done" => Outstanding(calls[c], Len(calls[c].trace)) = {}
      /\ (calls[c].pc = "done") <=> (calls[c].outcome.state # "pending")

\* The three steps have run, one after the other, and the call has returned
C26_Witness ==
  \E c \in DOMAIN calls :
    /\ calls[c].api = "wrap"
    /\ calls[c].outcome.state = "fulfilled"
    /\ Happened(calls[c], "deidentifyText.ok")
    /\ Happened(calls[c], "operation.ok")
    /\ Happened(calls[c], "reidentifyText.ok")

(***************************************************************************)
(* C27: in wrapWithProtection, onDeidentify (when supplied) is invoked     *)
(* exactly once per call, with the deidentify outcome, after the external  *)
(* deidentify call succeeds and before the operation is invoked, and is    *)
(* not invoked when deidentify fails; onReidentify (when supplied) is      *)
(* invoked at most once, only after a reidentify call has succeeded, with  *)
(* the reidentified text that ends up in the returned value, and never on  *)
(* a path that performs no reidentification.                               *)
(***************************************************************************)
Supplied(callback) == callback \notin {Undefined, Null}

C27_CallbacksInvoked ==
  \A c \in DOMAIN calls :
    calls[c].api = "wrapWithProtection" =>
      LET call == calls[c]
          past == call.pc \notin {"called", "deidentifyText", "awaitDeidentify"}
      IN /\ Count(call, "onDeidentify") <= 1
         /\ Count(call, "onReidentify") <= 1
         /\ Happened(call, "onDeidentify") => Supplied(call.options.onDeidentify)
         /\ Happened(call, "onReidentify") => Supplied(call.options.onReidentify)
         /\ (past /\ Supplied(call.options.onDeidentify)) =>
              IF Happened(call, "deidentifyText.ok")
              THEN /\ Count(call, "onDeidentify") = 1
                   /\ ArgOf(call, "onDeidentify") =
                        DeidentifyResultOf(ArgOf(call, "deidentifyText.ok"))
              ELSE ~Happened(call, "onDeidentify")
         /\ \A i \in Places(call, "onDeidentify") :
              /\ \E j \in Places(call, "deidentifyText.ok") : j < i
              /\ \A j \in Places(call, "operation.call") : i < j
         /\ \A i \in Places(call, "onReidentify") :
              /\ \E j \in Places(call, "reidentifyText.ok") :
                   /\ j < i
                   /\ call.trace[i].arg = Get(call.trace[j].arg, "processedText")
              /\ call.outcome.state = "fulfilled" =>
                   \/ call.outcome.value = call.trace[i].arg
                   \/ /\ call.outcome.value.t = "object"
                      /\ call.outcome.value.fields[call.options.reidentifyField.str]
                           = call.trace[i].arg
         /\ (call.pc = "done" /\ Supplied(call.options.onReidentify)
             /\ Happened(call, "reidentifyText.ok")) =>
              Count(call, "onReidentify") = 1

\* Both callbacks were supplied and told, on the field path
C27_Witness ==
  \E c \in DOMAIN calls :
    /\ calls[c].api = "wrapWithProtection"
    /\ calls[c].outcome.state = "fulfilled"
    /\ calls[c].path = "field"
    /\ Happened(calls[c], "onDeidentify")
    /\ Happened(calls[c], "onReidentify")

(***************************************************************************)
(* C28: a DeidentifyError (resp. ReidentifyError) raised for a failed      *)
(* external call carries httpCode equal to the service's status code and   *)
(* details equal to the service's details payload when the failure is a    *)
(* structured service error providing them; in every other case they are   *)
(* absent, and a failure that supplied neither yields an error carrying    *)
(* neither.                                                                *)
(***************************************************************************)
\* What a failure of the external call provides under that name, if anything
Provided(failure, name) ==
  IF /\ failure.t = "error"
     /\ failure.class = "SkyflowError"
     /\ failure.error.t = "object"
     /\ name \in DOMAIN failure.error.fields
  THEN failure.error.fields[name]
  ELSE Undefined

\* The service's status code: a number
StatusCode(failure) ==
  IF Provided(failure, "http_code").t = "number"
  THEN Provided(failure, "http_code")
  ELSE Undefined

Carries(raised, failure) ==
  /\ raised.httpCode = StatusCode(failure)
  /\ raised.details = Provided(failure, "details")
  /\ (StatusCode(failure) = Undefined /\ Provided(failure, "details") = Undefined) =>
       (raised.httpCode = Undefined /\ raised.details = Undefined)

C28_StatusAndDetailsCarried ==
  \A c \in DOMAIN calls :
    /\ (Happened(calls[c], "deidentifyText.fail")
        /\ calls[c].deidentified.state = "rejected") =>
         /\ IsClass(calls[c].deidentified, "DeidentifyError")
         /\ Carries(calls[c].deidentified.reason, ArgOf(calls[c], "deidentifyText.fail"))
    /\ (Happened(calls[c], "reidentifyText.fail")
        /\ calls[c].reidentified.state = "rejected") =>
         /\ IsClass(calls[c].reidentified, "ReidentifyError")
         /\ Carries(calls[c].reidentified.reason, ArgOf(calls[c], "reidentifyText.fail"))
    /\ (calls[c].deidentified.state = "rejected"
        /\ ~Happened(calls[c], "deidentifyText.fail")) =>
         /\ calls[c].deidentified.reason.httpCode = Undefined
         /\ calls[c].deidentified.reason.details = Undefined

\* client.reidentify has rejected for a service error with status and details
C28_Witness ==
  \E c \in DOMAIN calls :
    /\ calls[c].api = "reidentify"
    /\ calls[c].pc = "done"
    /\ IsClass(calls[c].outcome, "ReidentifyError")
    /\ calls[c].outcome.reason.httpCode = Num(503)
    /\ calls[c].outcome.reason.details = Str("retry later")

(***************************************************************************)
(* C29: if reidentify fails inside wrapWithProtection or client.wrap, on   *)
(* the string path or on the field path, the call rejects with a           *)
(* ReidentifyError after the operation was invoked exactly once and        *)
(* completed; the raw result of the operation is not returned as a         *)
(* fallback and onReidentify is not invoked.                               *)
(***************************************************************************)
C29_ReidentifyFailureRejects ==
  \A c \in DOMAIN calls :
    (calls[c].api \in {"wrapWithProtection", "wrap"}
     /\ Happened(calls[c], "reidentifyText.fail")) =>
      /\ calls[c].pc \in {"awaitReidentify", "done"}
      /\ calls[c].path \in {"string", "field"}
      /\ IsClass(calls[c].reidentified, "ReidentifyError")
      /\ calls[c].pc = "done" =>
           /\ IsClass(calls[c].outcome, "ReidentifyError")
           /\ calls[c].outcome.reason = calls[c].reidentified.reason
      /\ Count(calls[c], "operation.call") = 1
      /\ Count(calls[c], "operation.ok") = 1
      /\ \A i \in Places(calls[c], "operation.ok") :
           \A j \in Places(calls[c], "reidentifyText.call") : i < j
      /\ ~Happened(calls[c], "onReidentify")

\* reidentify has failed on the field path, onReidentify being supplied, and
\* the call has rejected
C29_Witness ==
  \E c \in DOMAIN calls :
    /\ calls[c].api = "wrapWithProtection"
    /\ calls[c].path = "field"
    /\ calls[c].options.onReidentify # Undefined
    /\ Happened(calls[c], "reidentifyText.fail")
    /\ calls[c].pc = "done"
    /\ calls[c].outcome.state = "rejected"

(***************************************************************************)
(* C30: wrapWithProtection never modifies the object the operation         *)
(* returned: on the field path it returns a new top-level object and the   *)
(* original still holds the unreidentified value; on the pass-through      *)
(* paths it returns the very same value.                                   *)
(***************************************************************************)
C30_OperationResultUntouched ==
  \A c \in DOMAIN calls :
    (calls[c].api = "wrapWithProtection" /\ Happened(calls[c], "operation.ok")) =>
      LET call == calls[c]
          original == ArgOf(call, "operation.ok")
      IN /\ call.result = original
         /\ (call.path = "field" /\ call.outcome.state = "fulfilled") =>
              LET field == call.options.reidentifyField.str
              IN /\ original.fields[field] = call.reidentifyArg
                 /\ original.fields[field] = ArgOf(call, "reidentifyText.call")
                 /\ call.outcome.value.t = "object"
                 /\ DOMAIN call.outcome.value.fields = DOMAIN original.fields
                 /\ call.outcome.value.fields[field] = call.reidentified.value.processedText
                 /\ \A other \in DOMAIN original.fields \ {field} :
                      call.outcome.value.fields[other] = original.fields[other]
         /\ (call.path = "none" /\ call.outcome.state = "fulfilled") =>
              call.outcome.value = original

\* The field was restored in the object returned, and the operation's object
\* still holds the token
C30_Witness ==
  \E c \in DOMAIN calls :
    /\ calls[c].api = "wrapWithProtection"
    /\ calls[c].path = "field"
    /\ calls[c].outcome.state = "fulfilled"
    /\ calls[c].result.fields.output = Str("[EMAIL_ADDRESS_abc123]")
    /\ calls[c].outcome.value.fields.output = Str("john@example.com")

====
